---- MODULE Spec2Model ----
(***************************************************************************)
(* A model of cascade's provider tool-calling loops (Claude, Gemini and    *)
(* the shared OpenAI-compatible helper), of ToolExecutor, and of the       *)
(* streaming renderer's PROSE / CODE_BLOCK state machine.                  *)
(*                                                                         *)
(* Python values are modelled as follows.                                  *)
(*   str            a TLA+ string                                          *)
(*   list           a sequence                                             *)
(*   dict           a record; a key the dict lacks is a field the record   *)
(*                  lacks, so d[k] on it is a KeyError and d.get(k, v) is  *)
(*                  v                                                      *)
(*   a JSON value whose type the vendor decides (a tool name, a tool's     *)
(*   arguments) is tagged: [str |-> s], [arr |-> <<..>>], [obj |-> pairs]  *)
(*   where pairs is the set of the object's <<key, value>> items           *)
(*   an operation that can raise returns [ok |-> v] or [exc |-> type]      *)
(***************************************************************************)
EXTENDS Naturals, Sequences, FiniteSets, TLC

VARIABLES
    adapter,      \* which provider's ask_with_tools is running
    max_rounds,   \* the max_rounds argument
    pc,           \* "running" | "returned" | "raised"
    round,        \* iterations of `for _ in range(max_rounds)` begun
    messages,     \* messages (Claude, OpenAI) / contents (Gemini): the history
    tool_log,     \* tool_log
    last_text,    \* text_parts (Claude, Gemini) / content (OpenAI); Unbound before round 1
    ret,          \* the returned (text, tool_log) pair, NoReturn until then
    exc,          \* the exception that left ask_with_tools, "" if none
    sent,         \* the `messages` payload of every HTTP request issued, in order
    replies,      \* the vendor's answer to every request, in order
    handler_calls \* every tool handler invocation, in order

VARIABLES
    executed      \* the ToolExecutor.execute calls made on one executor, with their outcomes

VARIABLES
    renderer,     \* the StreamRenderer's fields, and what it has rendered so far
    stream_text,  \* the text the provider streams
    fed,          \* how many characters of it feed() has consumed
    feeds,        \* how many feed() calls consumed them
    finished      \* whether finish() has been called

VARIABLES
    providers,    \* app.providers: provider name -> its ProviderConfig (model, temperature)
    agent_call,   \* the AgentRunner.run / AgentRunner.stream call under way
    agent_calls   \* how many AgentRunner calls have been made

VARIABLES
    prov_adapter, \* the provider whose stream / ask / ask_with_tools is called
    last_usage,   \* its _last_usage
    prov_call,    \* the provider call under way: its generator, connection and output
    calls_made    \* how many provider calls have been made

VARIABLES
    signature,    \* the parameters of the callable given to callable_to_tool_def
    tool_def      \* the ToolDef derived from it (None before)

VARIABLES
    overlap,      \* two agent-scoped calls that may overlap: where each stands
    overlap_before \* the provider configs before the first of them started

VARIABLES
    widget,       \* a StreamMessage: its fields and what it has shown
    widget_chunks \* the chunks fed to it so far

VARIABLES
    stream_msg,   \* MainScreen._stream_msg: the StreamMessage last mounted (0: none)
    mounted,      \* the StreamMessages mounted, one per prompt: what each was fed
    workers       \* the worker thread of each prompt: where it stands

loopVars == <<adapter, max_rounds, pc, round, messages, tool_log, last_text,
              ret, exc, sent, replies, handler_calls>>

execVars == <<executed>>

segVars == <<renderer, stream_text, fed, feeds, finished>>

agentVars == <<providers, agent_call, agent_calls>>

provVars == <<prov_adapter, last_usage, prov_call, calls_made>>

schemaVars == <<signature, tool_def>>

overlapVars == <<overlap, overlap_before>>

widgetVars == <<widget, widget_chunks>>

tuiVars == <<stream_msg, mounted, workers>>

vars == <<loopVars, execVars, segVars, agentVars, provVars,
          schemaVars, overlapVars, widgetVars, tuiVars>>

(***************************************************************************)
(* Bounds of the model.                                                    *)
(***************************************************************************)
MaxRounds == 2

\* Lines of one streamed HTTP response.
MaxLines == 2

\* Provider calls made one after another on the same adapter.
MaxProvCalls == 2

\* Parameters of a callable.
MaxParams == 2

\* Prompts submitted in the TUI, and chunks a worker streams for one.
MaxPrompts == 2

MaxWorkerChunks == 2

\* How many execute() calls one executor serves.
MaxExecutes == 2

\* The longest streamed text tried exhaustively, in characters.
MaxLen == 5

\* AgentRunner calls made one after another on the same app.
MaxAgentCalls == 2

\* Chunks a provider's stream hands to AgentRunner.stream.
MaxChunks == 2

(***************************************************************************)
(* dict helpers                                                            *)
(***************************************************************************)
Has(d, k) == k \in DOMAIN d

Get(d, k, default) == IF Has(d, k) THEN d[k] ELSE default

JStr(s) == [str |-> s]

JArr == [arr |-> <<>>]

JObj(pairs) == [obj |-> pairs]

IsStr(v) == Has(v, "str")

IsObj(v) == Has(v, "obj")

Keys(o) == {p[1] : p \in o.obj}

Value(o, k) == (CHOOSE p \in o.obj : p[1] = k)[2]

Ok(v) == [ok |-> v]

Raise(type, msg) == [exc |-> type, msg |-> msg]

\* Python's None, and a value that is not None.
None == [none |-> TRUE]

Some(v) == [val |-> v]

Raised(r) == Has(r, "exc")

(***************************************************************************)
(* JSON text.  A Python str holding the encoding of value v is             *)
(* [json |-> v]; a str that is no JSON document is [text |-> s].           *)
(***************************************************************************)
\* What a handler can return: a str is encodable, a bytes object is not.
Serializable(v) == IsStr(v)

\* json.dumps({key: v}) for the one-key dicts the executor builds.
JsonDumps(key, v) ==
    IF Serializable(v)
    THEN Ok([json |-> [k \in {key} |-> v]])
    ELSE Raise("TypeError", "Object of type bytes is not JSON serializable")

\* json.loads(s): a TypeError unless s is a str, a JSONDecodeError unless
\* the str is a JSON document, else the decoded value.
JsonLoads(s) ==
    IF ~IsStr(s) THEN Raise("TypeError", "the JSON object must be str, bytes or bytearray")
    ELSE IF Has(s.str, "json") THEN Ok(s.str.json)
    ELSE Raise("JSONDecodeError", "Expecting value")

(***************************************************************************)
(* The tool catalog: echo and fail are the handlers of the tests, raw is a *)
(* handler whose return value json.dumps cannot encode.                    *)
(***************************************************************************)
ToolNames == {"echo", "fail", "raw"}

\* The parameters of each handler's signature; none has a default.
Params(name) ==
    CASE name = "echo" -> {"message"}
      [] name = "fail" -> {"x"}
      [] name = "raw"  -> {}

\* tool.handler(**arguments): binding the keyword arguments, then the body.
HandlerBody(name, arguments) ==
    CASE name = "echo" -> Ok(JStr(Value(arguments, "message")))
      [] name = "fail" -> Raise("ValueError", "intentional error")
      [] name = "raw"  -> Ok([bytes |-> "raw"])

CallHandler(name, arguments) ==
    IF ~IsObj(arguments)
    THEN Raise("TypeError", "argument after ** must be a mapping")
    ELSE IF Keys(arguments) # Params(name)
    THEN Raise("TypeError", "unexpected or missing keyword argument")
    ELSE HandlerBody(name, arguments)

\* Whether CallHandler got as far as running the handler's body.
BodyRan(name, arguments) == IsObj(arguments) /\ Keys(arguments) = Params(name)

\* `tool_name not in self._tools` hashes tool_name: a list or dict raises.
Hashable(v) == IsStr(v)

ErrorJson(msg) == [json |-> [error |-> msg]]

(***************************************************************************)
(* ToolExecutor.execute(tool_name, arguments).                             *)
(* Returns [out |-> Ok(json str) or the exception that escaped,            *)
(*          invoked |-> whether a handler was called,                      *)
(*          completed |-> whether a handler's body returned].              *)
(***************************************************************************)
Execute(tool_name, arguments) ==
    IF ~Hashable(tool_name)
    THEN [out |-> Raise("TypeError", "unhashable type"),
          invoked |-> FALSE, completed |-> FALSE]
    ELSE IF tool_name.str \notin ToolNames
    THEN [out |-> Ok(ErrorJson("Unknown tool: " \o tool_name.str)),
          invoked |-> FALSE, completed |-> FALSE]
    ELSE LET name   == tool_name.str
             result == CallHandler(name, arguments)
             dumped == IF Raised(result) THEN result
                       ELSE JsonDumps("result", result.ok)
             done   == BodyRan(name, arguments) /\ ~Raised(result)
         IN  [out |->
                 IF ~Raised(dumped) THEN dumped
                 ELSE IF dumped.exc = "TypeError"
                 THEN Ok(ErrorJson("Invalid arguments for " \o name \o ": "
                                   \o dumped.msg))
                 ELSE Ok(ErrorJson("Tool " \o name \o " failed: " \o dumped.msg)),
              invoked |-> TRUE, completed |-> done]

(***************************************************************************)
(* The vendor.  A tool call is described by a record with the optional     *)
(* fields id, name and args; each adapter's wire format wraps it.          *)
(***************************************************************************)
HiArgs == JObj({<<"message", "hi">>})

\* Calls every field of which is present and well-typed: the handler
\* succeeds, the tool is unknown, the handler raises, the arguments do not
\* fit the signature.
GoodCall(id)    == [id |-> id, name |-> JStr("echo"), args |-> HiArgs]
UnknownCall(id) == [id |-> id, name |-> JStr("nope"), args |-> HiArgs]
FailingCall(id) == [id |-> id, name |-> JStr("fail"), args |-> JObj({<<"x", "test">>})]
BadArgsCall(id) == [id |-> id, name |-> JStr("echo"),
                    args |-> JObj({<<"wrong_param", "test">>})]

WellFormedCalls(id) == {GoodCall(id), UnknownCall(id), FailingCall(id), BadArgsCall(id)}

\* Calls that lack a field, or carry a value of the wrong JSON type.
MalformedCalls ==
    { [name |-> JStr("echo"), args |-> HiArgs],                \* no id
      [id |-> "t1", args |-> HiArgs],                          \* no name
      [id |-> "t1", name |-> JStr("echo")],                    \* no arguments
      [id |-> "t1", name |-> JStr("echo"), args |-> JArr],     \* arguments not an object
      [id |-> "t1", name |-> JArr, args |-> HiArgs] }          \* name not a string

\* The tool calls of one response: none, one, two with distinct ids, or a
\* failing call followed by one that lacks its id.
CallLists ==
    {<<>>}
    \cup {<<c>> : c \in WellFormedCalls("t1") \cup MalformedCalls}
    \cup { <<GoodCall("t1"), UnknownCall("t2")>>,
           <<FailingCall("t2"), GoodCall("t1")>>,
           <<UnknownCall("t1"), [name |-> JStr("echo"), args |-> HiArgs]>> }

\* The text that comes with a response, if any.
Texts == {"a"}

\* str(e) of the exception a failed HTTP request raises.
HttpErrors == {"timed out", "Server error '500 Internal Server Error'"}

HttpFailures == {[http_error |-> e] : e \in HttpErrors}

\* d with key `key` set to v (a dict literal with one more key).
With(d, key, v) == [k \in DOMAIN d \cup {key} |-> IF k = key THEN v ELSE d[k]]

\* d with key `old` renamed to `new`, when it has it.
Renamed(d, old, new) ==
    [k \in (DOMAIN d \ {old}) \cup (IF Has(d, old) THEN {new} ELSE {}) |->
        IF k = new THEN d[old] ELSE d[k]]

(***************************************************************************)
(* Claude wire format                                                      *)
(***************************************************************************)
ClaudeToolUse(c) == With(Renamed(c, "args", "input"), "type", "tool_use")

ClaudeContent(texts, calls) ==
    [i \in 1..Len(texts) |-> [type |-> "text", text |-> texts[i]]]
    \o [i \in 1..Len(calls) |-> ClaudeToolUse(calls[i])]

TextLists == {<<>>} \cup {<<t>> : t \in Texts}

ClaudeBodies ==
    { [stop_reason |-> s, content |-> ClaudeContent(t, c)] :
        s \in {"tool_use", "end_turn"}, t \in TextLists, c \in CallLists }
    \cup { [content |-> ClaudeContent(t, c)] : t \in TextLists, c \in CallLists }
    \cup { [stop_reason |-> "end_turn"] }

ClaudeReplies == {[data |-> d] : d \in ClaudeBodies} \cup HttpFailures

(***************************************************************************)
(* OpenAI-compatible wire format                                           *)
(***************************************************************************)
\* The function object of a tool call: arguments is a str of JSON text.
OpenAIFunction(c) ==
    [k \in (IF Has(c, "name") THEN {"name"} ELSE {})
           \cup (IF Has(c, "args") THEN {"arguments"} ELSE {}) |->
        IF k = "name" THEN c.name ELSE JStr([json |-> c.args])]

OpenAIToolCall(c) ==
    [k \in {"type", "function"} \cup (IF Has(c, "id") THEN {"id"} ELSE {}) |->
        CASE k = "type" -> "function"
          [] k = "function" -> OpenAIFunction(c)
          [] k = "id" -> c.id]

\* Tool calls only this format can carry: arguments that are no JSON text,
\* arguments that are an object instead of a str, no function object at all.
OpenAIOddCalls ==
    { [id |-> "t1", type |-> "function",
       function |-> [name |-> JStr("echo"), arguments |-> JStr([text |-> "{oops"])]],
      [id |-> "t1", type |-> "function",
       function |-> [name |-> JStr("echo"), arguments |-> HiArgs]],
      [id |-> "t1", type |-> "function"] }

OpenAICallLists ==
    { [i \in 1..Len(cs) |-> OpenAIToolCall(cs[i])] : cs \in CallLists }
    \cup { <<c>> : c \in OpenAIOddCalls }

\* The message object: content and tool_calls are both optional keys.
OpenAIMessages ==
    { [role |-> "assistant", tool_calls |-> c] : c \in OpenAICallLists }
    \cup { [role |-> "assistant", content |-> t, tool_calls |-> c] :
              t \in Texts, c \in OpenAICallLists }
    \cup { [role |-> "assistant", content |-> t] : t \in Texts }

OpenAIBodies ==
    { [choices |-> <<[message |-> m, finish_reason |-> f]>>] :
        m \in OpenAIMessages, f \in {"tool_calls", "stop"} }
    \cup { [choices |-> <<[message |-> m]>>] : m \in OpenAIMessages }
    \cup { [choices |-> <<>>], [id |-> "chatcmpl-1"] }

OpenAIReplies == {[data |-> d] : d \in OpenAIBodies} \cup HttpFailures

(***************************************************************************)
(* Gemini wire format                                                      *)
(***************************************************************************)
GeminiFunctionCall(c) ==
    [functionCall |->
        [k \in DOMAIN c \ {"id"} |-> c[k]]]

GeminiParts(texts, calls) ==
    [i \in 1..Len(texts) |-> [text |-> texts[i]]]
    \o [i \in 1..Len(calls) |-> GeminiFunctionCall(calls[i])]

GeminiBodies ==
    { [candidates |-> <<[content |-> [parts |-> GeminiParts(t, c)]]>>] :
        t \in TextLists, c \in CallLists }
    \cup { [candidates |-> <<>>], [candidates |-> <<[finishReason |-> "SAFETY"]>>],
           [promptFeedback |-> "blocked"] }

GeminiReplies == {[data |-> d] : d \in GeminiBodies} \cup HttpFailures

(***************************************************************************)
(* State of one ask_with_tools call                                        *)
(***************************************************************************)
Unbound == [unbound |-> TRUE]

Bound(v) == [val |-> v]

NoReturn == [none |-> TRUE]

Returned(text, log) == [text |-> text, log |-> log]

Prompt == "p"

\* `for _ in range(max_rounds)`: whether the loop has another iteration.
RangeHasNext(i, n) == i < n

\* Mutant: the exception's text returned bare.
ErrorText_Bare(e) == e

\* `except Exception as e: return f"Error: {e}", tool_log`
ErrorText(e) == "Error: " \o e

RECURSIVE Join(_)
Join(parts) == IF parts = <<>> THEN "" ELSE Head(parts) \o Join(Tail(parts))

\* Mutant: the record keeps the input where the output belongs.
LogEntry_InputAsOutput(tool_name, tool_input, result) ==
    [tool |-> tool_name, input |-> tool_input, output |-> tool_input]

\* One entry of tool_log.
LogEntry(tool_name, tool_input, result) ==
    [tool |-> tool_name, input |-> tool_input, output |-> result]

\* One entry of handler_calls.
HandlerCall(tool_name, tool_input) == [tool |-> tool_name, arguments |-> tool_input]

\* The state of a loop over a response's tool calls: the exception that
\* ended it (NoExc if none), tool_log, the tool-result turns built so far,
\* the handler invocations made.
NoExc == ""

ToolRun(e, log, results, calls) ==
    [exc |-> e, log |-> log, results |-> results, calls |-> calls]

(***************************************************************************)
(* ClaudeProvider.ask_with_tools                                           *)
(***************************************************************************)
ClaudeInitMessages == <<[role |-> "user", content |-> [str |-> Prompt]]>>

ClaudeStopReason(data) == Get(data, "stop_reason", "end_turn")

RECURSIVE ClaudeTextParts(_)
ClaudeTextParts(content) ==
    IF content = <<>> THEN <<>>
    ELSE LET block == Head(content)
         IN  (IF Get(block, "type", "") = "text"
              THEN <<Get(block, "text", "")>> ELSE <<>>)
             \o ClaudeTextParts(Tail(content))

ClaudeToolUses(content) ==
    SelectSeq(content, LAMBDA block : Get(block, "type", "") = "tool_use")

\* Mutant: the text parts are collected over the whole call.
RoundText_Accumulates(previous, parts) ==
    IF Has(previous, "val") THEN previous.val \o parts ELSE parts

\* `text_parts = []` at each response: the text parts of this round, whatever
\* those of the round before (`previous`) were.
RoundText(previous, parts) ==
    parts

\* Mutant: only the stop signal decides, not the presence of tool_use blocks.
ClaudeIsFinal_SignalOnly(tool_uses, stop_reason) == stop_reason # "tool_use"

\* `if not tool_uses or stop_reason != "tool_use": return`
ClaudeIsFinal(tool_uses, stop_reason) == tool_uses = <<>> \/ stop_reason # "tool_use"

\* Mutant: every result keyed by the id of the first tool call.
ClaudeToolResult_StaleId(tool_id, result) ==
    [type |-> "tool_result", tool_use_id |-> "t1", content |-> result]

ClaudeToolResult(tool_id, result) ==
    [type |-> "tool_result", tool_use_id |-> tool_id, content |-> result]

\* `for tool_use in tool_uses:` from the state `acc`.
RECURSIVE ClaudeRunTools(_, _)
ClaudeRunTools(tool_uses, acc) ==
    IF tool_uses = <<>> \/ acc.exc # NoExc THEN acc
    ELSE LET tool_use == Head(tool_uses)
         IN  IF ~Has(tool_use, "name") \/ ~Has(tool_use, "id")
             THEN [acc EXCEPT !.exc = "KeyError"]
             ELSE LET tool_name  == tool_use.name
                      tool_input == Get(tool_use, "input", JObj({}))
                      tool_id    == tool_use.id
                      run        == Execute(tool_name, tool_input)
                      calls      == IF run.invoked
                                    THEN Append(acc.calls, HandlerCall(tool_name, tool_input))
                                    ELSE acc.calls
                  IN  IF Raised(run.out)
                      THEN [acc EXCEPT !.exc = run.out.exc, !.calls = calls]
                      ELSE ClaudeRunTools(Tail(tool_uses),
                             ToolRun(NoExc,
                                     Append(acc.log,
                                            LogEntry(tool_name, tool_input, run.out.ok)),
                                     Append(acc.results,
                                            ClaudeToolResult(tool_id, run.out.ok)),
                                     calls))

\* One iteration of the loop: the request, and everything done with its answer.
ClaudeRound(reply) ==
    /\ adapter = "claude"
    /\ pc = "running"
    /\ RangeHasNext(round, max_rounds)
    /\ round' = round + 1
    /\ sent' = Append(sent, messages)
    /\ replies' = Append(replies, reply)
    /\ IF Has(reply, "http_error")
       THEN /\ pc' = "returned"
            /\ ret' = Returned(ErrorText(reply.http_error), tool_log)
            /\ UNCHANGED <<messages, tool_log, last_text, exc, handler_calls>>
       ELSE LET data        == reply.data
                stop_reason == ClaudeStopReason(data)
                content     == Get(data, "content", <<>>)
                text_parts  == RoundText(last_text, ClaudeTextParts(content))
                tool_uses   == ClaudeToolUses(content)
            IN  IF ClaudeIsFinal(tool_uses, stop_reason)
                THEN /\ pc' = "returned"
                     /\ ret' = Returned(Join(text_parts), tool_log)
                     /\ last_text' = Bound(text_parts)
                     /\ UNCHANGED <<messages, tool_log, exc, handler_calls>>
                ELSE LET assistant == [role |-> "assistant",
                                       content |-> [blocks |-> data.content]]
                         run == ClaudeRunTools(tool_uses,
                                    ToolRun(NoExc, tool_log, <<>>, handler_calls))
                     IN  /\ last_text' = Bound(text_parts)
                         /\ handler_calls' = run.calls
                         /\ IF run.exc # NoExc
                            THEN /\ pc' = "raised"
                                 /\ exc' = run.exc
                                 /\ messages' = Append(messages, assistant)
                                 /\ tool_log' = run.log
                                 /\ UNCHANGED ret
                            ELSE /\ messages' = messages \o
                                        <<assistant,
                                          [role |-> "user",
                                           content |-> [blocks |-> run.results]]>>
                                 /\ tool_log' = run.log
                                 /\ UNCHANGED <<pc, ret, exc>>
    /\ UNCHANGED <<adapter, max_rounds, execVars, segVars, agentVars, provVars,
                   schemaVars, overlapVars, widgetVars, tuiVars>>

\* The loop is over: `return "".join(text_parts) if text_parts else "", tool_log`.
ClaudeExhausted ==
    /\ adapter = "claude"
    /\ pc = "running"
    /\ ~RangeHasNext(round, max_rounds)
    /\ IF last_text = Unbound
       THEN /\ pc' = "raised"
            /\ exc' = "UnboundLocalError"
            /\ UNCHANGED ret
       ELSE /\ pc' = "returned"
            /\ ret' = Returned(IF last_text.val # <<>> THEN Join(last_text.val) ELSE "",
                               tool_log)
            /\ UNCHANGED exc
    /\ UNCHANGED <<adapter, max_rounds, round, messages, tool_log, last_text,
                   sent, replies, handler_calls, execVars, segVars, agentVars, provVars,
                   schemaVars, overlapVars, widgetVars, tuiVars>>

(***************************************************************************)
(* openai_ask_with_tools (OpenAIProvider and OpenRouterProvider)           *)
(***************************************************************************)
OpenAIInitMessages(system) ==
    (IF system # "" THEN <<[role |-> "system", content |-> system]>> ELSE <<>>)
    \o <<[role |-> "user", content |-> Prompt]>>

\* Mutant: tool calls are run whatever the finish reason.
OpenAIIsFinal_CallsOnly(tool_calls, finish_reason) ==
    tool_calls = <<>>

\* `if not tool_calls or finish_reason != "tool_calls": return`
OpenAIIsFinal(tool_calls, finish_reason) ==
    tool_calls = <<>> \/ finish_reason # "tool_calls"

\* Mutant: the result sent under the legacy "function" role.
OpenAIToolMessage_FunctionRole(tool_call_id, result) ==
    [role |-> "function", tool_call_id |-> tool_call_id, content |-> result]

OpenAIToolMessage(tool_call_id, result) ==
    [role |-> "tool", tool_call_id |-> tool_call_id, content |-> result]

\* json.loads(fn.get("arguments", "{}")) with `except json.JSONDecodeError`.
OpenAIToolArgs(fn) ==
    LET loaded == JsonLoads(Get(fn, "arguments", JStr([json |-> JObj({})])))
    IN  IF Raised(loaded) /\ loaded.exc = "JSONDecodeError" THEN Ok(JObj({}))
        ELSE loaded

\* `for tc in tool_calls:` from the state `acc`; acc.results are the
\* role "tool" messages appended to `messages` so far.
RECURSIVE OpenAIRunTools(_, _)
OpenAIRunTools(tool_calls, acc) ==
    IF tool_calls = <<>> \/ acc.exc # NoExc THEN acc
    ELSE LET tc        == Head(tool_calls)
             fn        == Get(tc, "function", <<>>)
             tool_name == Get(fn, "name", JStr(""))
             tool_args == OpenAIToolArgs(fn)
         IN  IF Raised(tool_args)
             THEN [acc EXCEPT !.exc = tool_args.exc]
             ELSE LET run   == Execute(tool_name, tool_args.ok)
                      calls == IF run.invoked
                               THEN Append(acc.calls,
                                           HandlerCall(tool_name, tool_args.ok))
                               ELSE acc.calls
                  IN  IF Raised(run.out)
                      THEN [acc EXCEPT !.exc = run.out.exc, !.calls = calls]
                      ELSE LET log == Append(acc.log,
                                        LogEntry(tool_name, tool_args.ok, run.out.ok))
                           IN  IF ~Has(tc, "id")
                               THEN ToolRun("KeyError", log, acc.results, calls)
                               ELSE OpenAIRunTools(Tail(tool_calls),
                                      ToolRun(NoExc, log,
                                              Append(acc.results,
                                                     OpenAIToolMessage(tc.id, run.out.ok)),
                                              calls))

OpenAIRound(reply) ==
    /\ adapter = "openai"
    /\ pc = "running"
    /\ RangeHasNext(round, max_rounds)
    /\ round' = round + 1
    /\ sent' = Append(sent, messages)
    /\ replies' = Append(replies, reply)
    /\ IF Has(reply, "http_error")
       THEN /\ pc' = "returned"
            /\ ret' = Returned(ErrorText(reply.http_error), tool_log)
            /\ UNCHANGED <<messages, tool_log, last_text, exc, handler_calls>>
       ELSE LET data    == reply.data
                choices == Get(data, "choices", <<>>)
            IN  IF choices = <<>>
                THEN /\ pc' = "returned"
                     /\ ret' = Returned("", tool_log)
                     /\ UNCHANGED <<messages, tool_log, last_text, exc, handler_calls>>
                ELSE LET message       == Get(choices[1], "message", <<>>)
                         finish_reason == Get(choices[1], "finish_reason", "stop")
                         tool_calls    == Get(message, "tool_calls", <<>>)
                         content       == Get(message, "content", "")
                     IN  IF OpenAIIsFinal(tool_calls, finish_reason)
                         THEN /\ pc' = "returned"
                              /\ ret' = Returned(content, tool_log)
                              /\ last_text' = Bound(content)
                              /\ UNCHANGED <<messages, tool_log, exc, handler_calls>>
                         ELSE LET run == OpenAIRunTools(tool_calls,
                                            ToolRun(NoExc, tool_log, <<>>, handler_calls))
                              IN  /\ last_text' = Bound(content)
                                  /\ handler_calls' = run.calls
                                  /\ messages' = messages \o <<message>> \o run.results
                                  /\ tool_log' = run.log
                                  /\ IF run.exc # NoExc
                                     THEN /\ pc' = "raised"
                                          /\ exc' = run.exc
                                          /\ UNCHANGED ret
                                     ELSE UNCHANGED <<pc, ret, exc>>
    /\ UNCHANGED <<adapter, max_rounds, execVars, segVars, agentVars, provVars,
                   schemaVars, overlapVars, widgetVars, tuiVars>>

\* The loop is over: `return content, tool_log`.
OpenAIExhausted ==
    /\ adapter = "openai"
    /\ pc = "running"
    /\ ~RangeHasNext(round, max_rounds)
    /\ IF last_text = Unbound
       THEN /\ pc' = "raised"
            /\ exc' = "UnboundLocalError"
            /\ UNCHANGED ret
       ELSE /\ pc' = "returned"
            /\ ret' = Returned(last_text.val, tool_log)
            /\ UNCHANGED exc
    /\ UNCHANGED <<adapter, max_rounds, round, messages, tool_log, last_text,
                   sent, replies, handler_calls, execVars, segVars, agentVars, provVars,
                   schemaVars, overlapVars, widgetVars, tuiVars>>

(***************************************************************************)
(* GeminiProvider.ask_with_tools                                           *)
(***************************************************************************)
GeminiInitContents(system) ==
    (IF system # ""
     THEN <<[role |-> "user", parts |-> <<[text |-> system]>>],
            [role |-> "model", parts |-> <<[text |-> "Understood."]>>]>>
     ELSE <<>>)
    \o <<[role |-> "user", parts |-> <<[text |-> Prompt]>>]>>

RECURSIVE GeminiTextParts(_)
GeminiTextParts(parts) ==
    IF parts = <<>> THEN <<>>
    ELSE (IF Has(Head(parts), "text") THEN <<Head(parts).text>> ELSE <<>>)
         \o GeminiTextParts(Tail(parts))

RECURSIVE GeminiFunctionCalls(_)
GeminiFunctionCalls(parts) ==
    IF parts = <<>> THEN <<>>
    ELSE (IF ~Has(Head(parts), "text") /\ Has(Head(parts), "functionCall")
          THEN <<Head(parts).functionCall>> ELSE <<>>)
         \o GeminiFunctionCalls(Tail(parts))

\* `if not function_calls: return`
GeminiIsFinal(function_calls) == function_calls = <<>>

GeminiFunctionResponse(tool_name, result) ==
    [functionResponse |-> [name |-> tool_name, response |-> [result |-> result]]]

\* `for fc in function_calls:` from the state `acc`.
RECURSIVE GeminiRunTools(_, _)
GeminiRunTools(function_calls, acc) ==
    IF function_calls = <<>> \/ acc.exc # NoExc THEN acc
    ELSE LET fc == Head(function_calls)
         IN  IF ~Has(fc, "name")
             THEN [acc EXCEPT !.exc = "KeyError"]
             ELSE LET tool_name == fc.name
                      tool_args == Get(fc, "args", JObj({}))
                      run       == Execute(tool_name, tool_args)
                      calls     == IF run.invoked
                                   THEN Append(acc.calls, HandlerCall(tool_name, tool_args))
                                   ELSE acc.calls
                  IN  IF Raised(run.out)
                      THEN [acc EXCEPT !.exc = run.out.exc, !.calls = calls]
                      ELSE GeminiRunTools(Tail(function_calls),
                             ToolRun(NoExc,
                                     Append(acc.log,
                                            LogEntry(tool_name, tool_args, run.out.ok)),
                                     Append(acc.results,
                                            GeminiFunctionResponse(tool_name, run.out.ok)),
                                     calls))

GeminiRound(reply) ==
    /\ adapter = "gemini"
    /\ pc = "running"
    /\ RangeHasNext(round, max_rounds)
    /\ round' = round + 1
    /\ sent' = Append(sent, messages)
    /\ replies' = Append(replies, reply)
    /\ IF Has(reply, "http_error")
       THEN /\ pc' = "returned"
            /\ ret' = Returned(ErrorText(reply.http_error), tool_log)
            /\ UNCHANGED <<messages, tool_log, last_text, exc, handler_calls>>
       ELSE LET data       == reply.data
                candidates == Get(data, "candidates", <<>>)
            IN  IF candidates = <<>>
                THEN /\ pc' = "returned"
                     /\ ret' = Returned("", tool_log)
                     /\ UNCHANGED <<messages, tool_log, last_text, exc, handler_calls>>
                ELSE LET parts == Get(Get(candidates[1], "content", <<>>), "parts", <<>>)
                         text_parts     == GeminiTextParts(parts)
                         function_calls == GeminiFunctionCalls(parts)
                     IN  IF GeminiIsFinal(function_calls)
                         THEN /\ pc' = "returned"
                              /\ ret' = Returned(Join(text_parts), tool_log)
                              /\ last_text' = Bound(text_parts)
                              /\ UNCHANGED <<messages, tool_log, exc, handler_calls>>
                         ELSE LET model == [role |-> "model", parts |-> parts]
                                  run == GeminiRunTools(function_calls,
                                            ToolRun(NoExc, tool_log, <<>>, handler_calls))
                              IN  /\ last_text' = Bound(text_parts)
                                  /\ handler_calls' = run.calls
                                  /\ tool_log' = run.log
                                  /\ IF run.exc # NoExc
                                     THEN /\ pc' = "raised"
                                          /\ exc' = run.exc
                                          /\ messages' = Append(messages, model)
                                          /\ UNCHANGED ret
                                     ELSE /\ messages' = messages \o
                                                <<model,
                                                  [role |-> "user", parts |-> run.results]>>
                                          /\ UNCHANGED <<pc, ret, exc>>
    /\ UNCHANGED <<adapter, max_rounds, execVars, segVars, agentVars, provVars,
                   schemaVars, overlapVars, widgetVars, tuiVars>>

\* The loop is over: `return "".join(text_parts) if text_parts else "", tool_log`.
GeminiExhausted ==
    /\ adapter = "gemini"
    /\ pc = "running"
    /\ ~RangeHasNext(round, max_rounds)
    /\ IF last_text = Unbound
       THEN /\ pc' = "raised"
            /\ exc' = "UnboundLocalError"
            /\ UNCHANGED ret
       ELSE /\ pc' = "returned"
            /\ ret' = Returned(IF last_text.val # <<>> THEN Join(last_text.val) ELSE "",
                               tool_log)
            /\ UNCHANGED exc
    /\ UNCHANGED <<adapter, max_rounds, round, messages, tool_log, last_text,
                   sent, replies, handler_calls, execVars, segVars, agentVars, provVars,
                   schemaVars, overlapVars, widgetVars, tuiVars>>

(***************************************************************************)
(* ToolExecutor used on its own                                            *)
(***************************************************************************)
\* The tool names and argument values execute() is tried on.
ExecuteNames == {JStr("echo"), JStr("fail"), JStr("raw"), JStr("nope"), JArr}

ExecuteArguments ==
    { HiArgs, JObj({<<"x", "test">>}), JObj({<<"wrong_param", "test">>}), JObj({}),
      JArr, JStr("hi") }

ExecuteCall(tool_name, arguments) ==
    /\ Len(executed) < MaxExecutes
    /\ executed' = Append(executed,
                          [tool_name |-> tool_name, arguments |-> arguments,
                           run |-> Execute(tool_name, arguments)])
    /\ UNCHANGED <<loopVars, segVars, agentVars, provVars,
                   schemaVars, overlapVars, widgetVars, tuiVars>>

(***************************************************************************)
(* StreamRenderer (cascade/ui/stream.py).  Text is a TLA+ string; what     *)
(* render_code_container and console.print are handed is appended to the   *)
(* renderer's `out`.                                                       *)
(***************************************************************************)
Char(s, i) == SubSeq(s, i, i)

\* str.strip() strips these.
Whitespace == {" ", "\n", "\t", "\r"}

RECURSIVE RStrip(_, _)
RStrip(s, chars) ==
    IF s # "" /\ Char(s, Len(s)) \in chars THEN RStrip(SubSeq(s, 1, Len(s) - 1), chars)
    ELSE s

RECURSIVE LStrip(_, _)
LStrip(s, chars) ==
    IF s # "" /\ Char(s, 1) \in chars THEN LStrip(SubSeq(s, 2, Len(s)), chars)
    ELSE s

Strip(s) == LStrip(RStrip(s, Whitespace), Whitespace)

StartsWith(s, prefix) == Len(s) >= Len(prefix) /\ SubSeq(s, 1, Len(prefix)) = prefix

\* The backquote character (a TLA+ string literal cannot hold one: it is
\* written "~" here; no streamed text uses a tilde).
Tick == "~"

Fence == Tick \o Tick \o Tick

NewRenderer ==
    [state |-> "PROSE", line_buf |-> "", code_buf |-> "", code_lang |-> "",
     first_line |-> TRUE, out |-> <<>>]

\* render_code_container(code, lang, console)
CodeEvent(code, lang) == [code |-> code, lang |-> lang]

\* Mutant: a blank line is not worth printing.
EmitProseLine_SkipsBlank(r, line) ==
    IF Strip(line) = "" THEN r
    ELSE [r EXCEPT !.out = Append(@, [prose |-> line, first |-> r.first_line]),
                   !.first_line = FALSE]

\* _emit_prose_line(line)
EmitProseLine(r, line) ==
    [r EXCEPT !.out = Append(@, [prose |-> line, first |-> r.first_line]),
              !.first_line = FALSE]

\* Mutant: a line is flushed at every word boundary as well.
LineComplete_AtWordBreak(ch) == ch \in {"\n", " "}

\* `if ch == "\n":` a line is complete when its newline is consumed.
LineComplete(ch) == ch = "\n"

\* _process_char(ch)
ProcessChar(r, ch) ==
    LET buf == r.line_buf \o ch
    IN  IF r.state = "PROSE"
        THEN IF LineComplete(ch)
             THEN LET line     == RStrip(buf, {"\n"})
                      stripped == Strip(line)
                  IN  IF StartsWith(stripped, Fence)
                      THEN [r EXCEPT !.code_lang = Strip(SubSeq(stripped, 4, Len(stripped))),
                                     !.state = "CODE_BLOCK",
                                     !.code_buf = "",
                                     !.line_buf = ""]
                      ELSE [EmitProseLine(r, line) EXCEPT !.line_buf = ""]
             ELSE [r EXCEPT !.line_buf = buf]
        ELSE IF LineComplete(ch)
             THEN LET line == RStrip(buf, {"\n"})
                  IN  IF Strip(line) = Fence
                      THEN [r EXCEPT !.out = Append(@, CodeEvent(RStrip(r.code_buf, {"\n"}),
                                                                 r.code_lang)),
                                     !.code_buf = "",
                                     !.code_lang = "",
                                     !.state = "PROSE",
                                     !.line_buf = ""]
                      ELSE [r EXCEPT !.code_buf = @ \o buf, !.line_buf = ""]
             ELSE [r EXCEPT !.line_buf = buf]

\* `for ch in chunk: self._process_char(ch)`
RECURSIVE ProcessChars(_, _)
ProcessChars(r, chunk) ==
    IF chunk = "" THEN r
    ELSE ProcessChars(ProcessChar(r, Char(chunk, 1)), SubSeq(chunk, 2, Len(chunk)))

\* Mutant: a chunk is taken to end on a line boundary, its unfinished last
\* line is not carried over to the next feed().
FeedChunk_DropsPartialLine(r, chunk) == [ProcessChars(r, chunk) EXCEPT !.line_buf = ""]

\* feed(chunk)
FeedChunk(r, chunk) == ProcessChars(r, chunk)

\* Mutant: a block whose closing fence never came is discarded.
FinishRenderer_DropsOpenBlock(r) ==
    LET flushed == IF r.state = "CODE_BLOCK"
                   THEN [r EXCEPT !.code_buf = "", !.state = "PROSE"]
                   ELSE r
    IN  IF Strip(flushed.line_buf) # ""
        THEN [EmitProseLine(flushed, flushed.line_buf) EXCEPT !.line_buf = ""]
        ELSE flushed

\* finish()
FinishRenderer(r) ==
    LET flushed ==
            IF r.state = "CODE_BLOCK"
            THEN [r EXCEPT !.out = IF r.code_buf # ""
                                   THEN Append(@, CodeEvent(RStrip(r.code_buf, {"\n"}),
                                                            r.code_lang))
                                   ELSE @,
                           !.code_buf = "",
                           !.state = "PROSE"]
            ELSE r
    IN  IF Strip(flushed.line_buf) # ""
        THEN [EmitProseLine(flushed, flushed.line_buf) EXCEPT !.line_buf = ""]
        ELSE flushed

\* The texts a provider streams: every string of at most MaxLen characters
\* over SegChars, and the texts of the tests.
SegChars == {Tick, "\n", "a", " "}

RECURSIVE StringsUpTo(_)
StringsUpTo(n) ==
    IF n = 0 THEN {""}
    ELSE LET shorter == StringsUpTo(n - 1)
         IN  shorter \cup {s \o c : s \in shorter, c \in SegChars}

SampleTexts ==
    { Fence \o "python\nx=1\n" \o Fence \o "\n",
      Fence \o "python\nx=1\n",
      "Hello world\n",
      "Before:\n" \o Fence \o "js\nlog(1)\n" \o Fence \o "\nAfter.\n",
      " " \o Fence \o " py \n  x\n\n " \o Fence \o " \ntail" }

StreamedTexts == StringsUpTo(MaxLen) \cup SampleTexts

\* feed(chunk) with the next n characters of the stream.
Feed(n) ==
    /\ ~finished
    /\ fed + n <= Len(stream_text)
    /\ renderer' = FeedChunk(renderer, SubSeq(stream_text, fed + 1, fed + n))
    /\ fed' = fed + n
    /\ feeds' = feeds + 1
    /\ UNCHANGED <<stream_text, finished, loopVars, execVars, agentVars, provVars,
                   schemaVars, overlapVars, widgetVars, tuiVars>>

Finish ==
    /\ ~finished
    /\ renderer' = FinishRenderer(renderer)
    /\ finished' = TRUE
    /\ UNCHANGED <<stream_text, fed, feeds, loopVars, execVars, agentVars, provVars,
                   schemaVars, overlapVars, widgetVars, tuiVars>>

(***************************************************************************)
(* Provider stream() / ask() (providers/claude.py, openai_provider.py,     *)
(* openrouter.py, gemini.py).  A line of the response is                   *)
(* [sse |-> whether it starts with "data: ", body |-> the rest], the body  *)
(* being JSON text [json |-> v] or other text [text |-> s]; a decoded      *)
(* value v is [dict |-> record], [list |-> sequence] or [null |-> TRUE].   *)
(* A usage is None or Some(<<input tokens, output tokens>>).               *)
(***************************************************************************)
StreamAdapters == {"claude", "openai", "openrouter", "gemini"}

Dict(d) == [dict |-> d]

Null == [null |-> TRUE]

EmptyDict == <<>>

SseLine(v) == [sse |-> TRUE, body |-> [json |-> v]]

\* The text fragments a vendor streams.
Frags == {"a", "b"}

\* Lines as the vendors document them.
ClaudeTextLine(f) ==
    SseLine(Dict([type |-> "content_block_delta", delta |-> Dict([text |-> f])]))

ClaudeStartLine ==
    SseLine(Dict([type |-> "message_start",
                  message |-> [usage |-> [input_tokens |-> 10]]]))

ClaudeDeltaLine ==
    SseLine(Dict([type |-> "message_delta", usage |-> [output_tokens |-> 5]]))

OpenAITextLine(f) ==
    SseLine(Dict([choices |-> <<[delta |-> Dict([content |-> f])]>>]))

OpenAIUsageLine ==
    SseLine(Dict([choices |-> <<>>,
                  usage |-> [prompt_tokens |-> 10, completion_tokens |-> 5]]))

DoneLine == [sse |-> TRUE, body |-> [text |-> "[DONE]"]]

GeminiTextLine(fs) ==
    [sse |-> FALSE,
     body |-> [json |-> Dict([candidates |->
                 <<[content |-> Dict([parts |-> [i \in 1..Len(fs) |-> [text |-> fs[i]]]])]>>])]]

GeminiUsageLine ==
    [sse |-> FALSE,
     body |-> [json |-> Dict([usageMetadata |->
                 [promptTokenCount |-> 10, candidatesTokenCount |-> 5]])]]

\* Lines every stream() passes over: one that is no JSON text, and one
\* that does not have the shape the adapter reads (an SSE comment for the
\* SSE adapters, a "data: " line for Gemini).
UnparseableLine(a) == [sse |-> a # "gemini", body |-> [text |-> "{oops"]]

ForeignLine(a) ==
    IF a = "gemini" THEN [sse |-> TRUE, body |-> [json |-> Dict(EmptyDict)]]
    ELSE [sse |-> FALSE, body |-> [text |-> ": keep-alive"]]

\* Lines that parse as JSON but lack the expected shape: a JSON array, and
\* an object whose delta / content is null.
ArrayLine(a) == [sse |-> a # "gemini", body |-> [json |-> [list |-> <<>>]]]

NullFieldLine(a) ==
    CASE a = "claude" ->
           SseLine(Dict([type |-> "content_block_delta", delta |-> Null]))
      [] a \in {"openai", "openrouter"} ->
           SseLine(Dict([choices |-> <<[delta |-> Null]>>]))
      [] a = "gemini" ->
           [sse |-> FALSE,
            body |-> [json |-> Dict([candidates |-> <<[content |-> Null]>>])]]

MalformedLines(a) == {UnparseableLine(a), ArrayLine(a), NullFieldLine(a)}

GeminiFragLists == {<<f>> : f \in Frags} \cup {<<"a", "b">>}

\* The lines a response of adapter a is made of.
StreamLines(a) ==
    MalformedLines(a) \cup {ForeignLine(a)} \cup
    CASE a = "claude" -> {ClaudeTextLine(f) : f \in Frags}
                         \cup {ClaudeStartLine, ClaudeDeltaLine}
      [] a \in {"openai", "openrouter"} ->
                         {OpenAITextLine(f) : f \in Frags}
                         \cup {OpenAIUsageLine, DoneLine}
      [] a = "gemini" -> {GeminiTextLine(fs) : fs \in GeminiFragLists}
                         \cup {GeminiUsageLine}

RECURSIVE SeqsUpTo(_, _)
\* The sequences over S of length at most n.
SeqsUpTo(S, n) ==
    IF n = 0 THEN {<<>>}
    ELSE LET shorter == SeqsUpTo(S, n - 1)
         IN  shorter \cup {Append(q, x) : q \in shorter, x \in S}

\* What processing one line does: the fragments it yields in order, the
\* usage as set before them, the usage to set after them (`keep` if none),
\* the exception raised after them ("" if none), and whether the loop breaks.
LineResult(frags, usage, post, e, stop) ==
    [frags |-> frags, usage |-> usage, post |-> post, exc |-> e, stop |-> stop]

Keep == [keep |-> TRUE]

Skipped(usage) == LineResult(<<>>, usage, Keep, "", FALSE)

\* ClaudeProvider.stream, the body of `for line in response.iter_lines()`.
ClaudeProcessLine(line, usage) ==
    IF ~line.sse THEN Skipped(usage)
    ELSE IF Has(line.body, "text") THEN Skipped(usage)
    ELSE IF ~Has(line.body.json, "dict")
    THEN LineResult(<<>>, usage, Keep, "AttributeError", FALSE)
    ELSE LET data == line.body.json.dict
             type == Get(data, "type", "")
         IN  CASE type = "content_block_delta" ->
                    IF ~Has(data, "delta") THEN Skipped(usage)
                    ELSE IF ~Has(data.delta, "dict")
                    THEN LineResult(<<>>, usage, Keep, "TypeError", FALSE)
                    ELSE IF Has(data.delta.dict, "text")
                    THEN LineResult(<<data.delta.dict.text>>, usage, Keep, "", FALSE)
                    ELSE Skipped(usage)
               [] type = "message_delta" ->
                    LET out_tokens == Get(Get(data, "usage", EmptyDict),
                                          "output_tokens", 0)
                        prev == IF usage = None THEN <<0, 0>> ELSE usage.val
                    IN  IF out_tokens # 0 THEN Skipped(Some(<<prev[1], out_tokens>>))
                        ELSE Skipped(usage)
               [] type = "message_start" ->
                    LET in_tokens == Get(Get(Get(data, "message", EmptyDict),
                                             "usage", EmptyDict),
                                         "input_tokens", 0)
                    IN  Skipped(Some(<<in_tokens, 0>>))
               [] OTHER -> Skipped(usage)

\* OpenAIProvider.stream / OpenRouterProvider.stream, the loop body.
OpenAIProcessLine(line, usage) ==
    IF ~line.sse THEN Skipped(usage)
    ELSE IF line.body = [text |-> "[DONE]"]
    THEN LineResult(<<>>, usage, Keep, "", TRUE)
    ELSE IF Has(line.body, "text") THEN Skipped(usage)
    ELSE IF ~Has(line.body.json, "dict")
    THEN LineResult(<<>>, usage, Keep, "AttributeError", FALSE)
    ELSE LET data    == line.body.json.dict
             reported == IF Has(data, "usage")
                         THEN Some(<<Get(data.usage, "prompt_tokens", 0),
                                     Get(data.usage, "completion_tokens", 0)>>)
                         ELSE usage
             choices == Get(data, "choices", <<>>)
         IN  IF choices = <<>> THEN Skipped(reported)
             ELSE LET delta == Get(choices[1], "delta", Dict(EmptyDict))
                  IN  IF ~Has(delta, "dict")
                      THEN LineResult(<<>>, reported, Keep, "AttributeError", FALSE)
                      ELSE LET content == Get(delta.dict, "content", "")
                           IN  IF content # ""
                               THEN LineResult(<<content>>, reported, Keep, "", FALSE)
                               ELSE Skipped(reported)

\* GeminiProvider.stream, the loop body (one candidate per line): the
\* texts are yielded first, usageMetadata is read after them.
GeminiProcessLine(line, usage) ==
    IF line.sse THEN Skipped(usage)
    ELSE IF Has(line.body, "text") THEN Skipped(usage)
    ELSE IF ~Has(line.body.json, "dict")
    THEN LineResult(<<>>, usage, Keep, "AttributeError", FALSE)
    ELSE LET data  == line.body.json.dict
             candidates == Get(data, "candidates", <<>>)
             meta  == Get(data, "usageMetadata", EmptyDict)
             in_t  == Get(meta, "promptTokenCount", 0)
             out_t == Get(meta, "candidatesTokenCount", 0)
             post  == IF in_t # 0 \/ out_t # 0 THEN Some(<<in_t, out_t>>) ELSE Keep
         IN  IF candidates = <<>> \/ ~Has(candidates[1], "content")
             THEN LineResult(<<>>, usage, post, "", FALSE)
             ELSE IF ~Has(candidates[1].content, "dict")
             THEN LineResult(<<>>, usage, Keep, "AttributeError", FALSE)
             ELSE LET parts == Get(candidates[1].content.dict, "parts", <<>>)
                      texts == SelectSeq(parts, LAMBDA part : Has(part, "text"))
                  IN  LineResult([i \in 1..Len(texts) |-> texts[i].text],
                                 usage, post, "", FALSE)

ProcessLine(a, line, usage) ==
    CASE a = "claude" -> ClaudeProcessLine(line, usage)
      [] a \in {"openai", "openrouter"} -> OpenAIProcessLine(line, usage)
      [] a = "gemini" -> GeminiProcessLine(line, usage)

\* What str(e) is for each transport failure: of client.stream(...)
\* ("connect"), of raise_for_status() ("status"), of iter_lines() ("read").
TransportError(transport) ==
    CASE transport = "connect" -> "ConnectError"
      [] transport = "status"  -> "HTTPStatusError"
      [] transport = "read"    -> "ReadError"

\* A generator object of stream(): who consumes it (kind: the caller of
\* stream(), or the "".join of ask()), where it stands (pc), the lines read
\* so far, what is left of the line being processed (pending fragments, the
\* usage to set and the exception to raise after them, whether the loop
\* then breaks), the state of the streaming response (conn), the fragments
\* handed to the consumer, whether the transport has failed, how the
\* request went (opened) and how the response ended (ended), and what
\* ask() returned (ret).
NewGenerator(kind) ==
    [kind |-> kind, pc |-> "created", lines |-> <<>>,
     pending |-> <<>>, post |-> Keep, exc |-> "", stop |-> FALSE,
     conn |-> "none", frags |-> <<>>, failed |-> FALSE,
     opened |-> "", ended |-> "", ret |-> ""]

NoCall == [kind |-> "none", pc |-> "idle"]

\* Mutant: leaving the `with` block keeps the response open.
ExitWith_KeepsOpen(g) ==
    g

\* Leaving `with self.client.stream(...) as response:` by any path.
ExitWith(g) ==
    [g EXCEPT !.conn = IF @ = "open" THEN "released" ELSE @]

\* Mutant: the exception leaves the generator.
Fail_Propagates(g, msg) ==
    [g EXCEPT !.pc = "raised"]

\* except Exception as e: yield f"Error: {str(e)}".  The caller of stream()
\* finds the generator suspended at that yield; the join of ask() resumes
\* it at once and the generator ends.
Fail(g, msg) ==
    [g EXCEPT !.pc = IF g.kind = "stream" THEN "failed" ELSE "done",
              !.frags = Append(@, "Error: " \o msg)]

RECURSIVE Continue(_, _)
\* The generator running on from inside the loop body: to its next yield,
\* to its next read of a line (pc "reading"), or to its end.  The result is
\* the generator and self._last_usage afterwards.
Continue(g, usage) ==
    IF g.pending # <<>>
    THEN LET yielded == [g EXCEPT !.pending = Tail(@),
                                  !.frags = Append(@, Head(g.pending))]
         IN  IF g.kind = "stream"
             THEN [g |-> [yielded EXCEPT !.pc = "suspended"], usage |-> usage]
             ELSE Continue(yielded, usage)
    ELSE IF g.exc # ""
    THEN [g |-> Fail(ExitWith(g), g.exc), usage |-> usage]
    ELSE LET after == IF g.post = Keep THEN usage ELSE g.post
         IN  IF g.stop
             THEN [g |-> [ExitWith(g) EXCEPT !.pc = "done"], usage |-> after]
             ELSE [g |-> [g EXCEPT !.pc = "reading", !.post = Keep],
                   usage |-> after]

\* The first next(): self._last_usage = None, then the request is sent
\* (`opened` is how that goes).
Start(g, opened) ==
    CASE opened = "connect" ->
           Fail([g EXCEPT !.failed = TRUE, !.opened = opened],
                TransportError("connect"))
      [] opened = "status" ->
           Fail(ExitWith([g EXCEPT !.conn = "open", !.failed = TRUE,
                                   !.opened = opened]),
                TransportError("status"))
      [] opened = "ok" ->
           [g EXCEPT !.pc = "reading", !.conn = "open", !.opened = opened]

\* One turn of `for line in response.iter_lines():` on the line read, and
\* the generator running on from there.
TakeLine(a, g, line, usage) ==
    LET r == ProcessLine(a, line, usage)
    IN  Continue([g EXCEPT !.lines = Append(@, line),
                           !.pending = r.frags,
                           !.post = r.post,
                           !.exc = r.exc,
                           !.stop = r.stop],
                 r.usage)

\* iter_lines() is exhausted ("eof") or raises ("read").
TakeEnd(g, how) ==
    IF how = "eof"
    THEN [ExitWith(g) EXCEPT !.pc = "done", !.ended = how]
    ELSE Fail(ExitWith([g EXCEPT !.failed = TRUE, !.ended = how]),
              TransportError("read"))

\* Mutant: ask() returns the first fragment only.
AskResult_FirstOnly(g) ==
    IF g.frags = <<>> THEN "" ELSE Head(g.frags)

\* What ask() returns: "".join(self.stream(prompt, system)).
AskResult(g) ==
    Join(g.frags)

\* The call once the generator has run: when the generator consumed by
\* ask() has ended, ask() returns.
Ran(g) ==
    IF g.kind = "ask" /\ g.pc = "done" THEN [g EXCEPT !.ret = AskResult(g)]
    ELSE g

Openings == {"ok", "connect", "status"}

\* Whether no provider call is under way.
ProvCallOver == prov_call.pc \in {"idle", "done", "raised", "closed", "returned"}

\* provider.stream(prompt, system): a generator object; nothing runs yet.
StreamCreate ==
    /\ ProvCallOver
    /\ calls_made < MaxProvCalls
    /\ calls_made' = calls_made + 1
    /\ prov_call' = NewGenerator("stream")
    /\ UNCHANGED <<prov_adapter, last_usage, loopVars, execVars, segVars, agentVars,
                   schemaVars, overlapVars, widgetVars, tuiVars>>

\* next() on the generator of stream().
StreamNext(opened) ==
    /\ prov_call.kind = "stream"
    /\ CASE prov_call.pc = "created" ->
              /\ prov_call' = Start(prov_call, opened)
              /\ last_usage' = None
         [] prov_call.pc = "suspended" ->
              /\ opened = "ok"
              /\ LET r == Continue(prov_call, last_usage)
                 IN  /\ prov_call' = r.g
                     /\ last_usage' = r.usage
         [] prov_call.pc = "failed" ->
              /\ opened = "ok"
              /\ prov_call' = [prov_call EXCEPT !.pc = "done"]
              /\ UNCHANGED last_usage
         [] OTHER -> FALSE
    /\ UNCHANGED <<prov_adapter, calls_made, loopVars, execVars, segVars, agentVars,
                   schemaVars, overlapVars, widgetVars, tuiVars>>

\* One turn of `for line in response.iter_lines():` with a line read.
ReadLine(line) ==
    /\ prov_call.pc = "reading"
    /\ line \in StreamLines(prov_adapter)
    /\ Len(prov_call.lines) < MaxLines
    /\ LET c == TakeLine(prov_adapter, prov_call, line, last_usage)
       IN  /\ prov_call' = Ran(c.g)
           /\ last_usage' = c.usage
    /\ UNCHANGED <<prov_adapter, calls_made, loopVars, execVars, segVars, agentVars,
                   schemaVars, overlapVars, widgetVars, tuiVars>>

\* iter_lines() is exhausted ("eof") or raises ("read").
ReadEnd(how) ==
    /\ prov_call.pc = "reading"
    /\ prov_call' = Ran(TakeEnd(prov_call, how))
    /\ UNCHANGED <<prov_adapter, last_usage, calls_made, loopVars, execVars,
                   segVars, agentVars,
                   schemaVars, overlapVars, widgetVars, tuiVars>>

\* close() on the generator of stream(): GeneratorExit at the yield leaves
\* the `with` block if the generator stands inside it.
StreamClose ==
    /\ prov_call.kind = "stream"
    /\ prov_call.pc \in {"created", "suspended", "failed"}
    /\ prov_call' = [ExitWith(prov_call) EXCEPT !.pc = "closed"]
    /\ UNCHANGED <<prov_adapter, last_usage, calls_made, loopVars, execVars,
                   segVars, agentVars,
                   schemaVars, overlapVars, widgetVars, tuiVars>>

\* provider.ask(prompt, system): the join starts the generator, which runs
\* up to its first read of a line.
Ask(opened) ==
    /\ ProvCallOver
    /\ calls_made < MaxProvCalls
    /\ calls_made' = calls_made + 1
    /\ prov_call' = Ran(Start(NewGenerator("ask"), opened))
    /\ last_usage' = None
    /\ UNCHANGED <<prov_adapter, loopVars, execVars, segVars, agentVars,
                   schemaVars, overlapVars, widgetVars, tuiVars>>

\* What the vendor reports for one round of ask_with_tools: None, or the
\* input and output tokens of that round's response.
RoundReports == {None, Some(<<3, 2>>)}

RECURSIVE ClaudeCaptureUsage(_, _)
\* ClaudeProvider.ask_with_tools, "Capture token usage", round after round.
ClaudeCaptureUsage(reports, usage) ==
    IF reports = <<>> THEN usage
    ELSE LET report == Head(reports)
             in_t  == IF report = None THEN 0 ELSE report.val[1]
             out_t == IF report = None THEN 0 ELSE report.val[2]
             prev  == IF usage = None THEN <<0, 0>> ELSE usage.val
         IN  ClaudeCaptureUsage(Tail(reports),
                 IF in_t # 0 \/ out_t # 0
                 THEN Some(<<prev[1] + in_t, prev[2] + out_t>>)
                 ELSE usage)

\* self._last_usage once ask_with_tools has returned: Claude adds each
\* round's counts to what is there; the other adapters do not assign it.
UsageAfterTools(a, reports, usage) ==
    IF a = "claude" THEN ClaudeCaptureUsage(reports, usage) ELSE usage

\* provider.ask_with_tools(...), as far as self._last_usage goes: the call
\* makes Len(reports) requests and returns.
AskWithTools(reports) ==
    /\ ProvCallOver
    /\ calls_made < MaxProvCalls
    /\ calls_made' = calls_made + 1
    /\ prov_call' = [kind |-> "ask_with_tools", pc |-> "returned",
                     reports |-> reports]
    /\ last_usage' = UsageAfterTools(prov_adapter, reports, last_usage)
    /\ UNCHANGED <<prov_adapter, loopVars, execVars, segVars, agentVars,
                   schemaVars, overlapVars, widgetVars, tuiVars>>

\* A provider as constructed: BaseProvider.__init__ sets _last_usage = None.
ProvIdle ==
    /\ prov_adapter = "claude"
    /\ last_usage = None
    /\ prov_call = NoCall
    /\ calls_made = 0

(***************************************************************************)
(* AgentRunner (cascade/agents/runner.py).  A temperature is written in    *)
(* tenths (0.7 is 7).                                                      *)
(***************************************************************************)
\* app.config.get_default_provider()
DefaultProvider == "gemini"

\* ProviderConfig(model, temperature) of each provider of the app.
ProviderConfigs ==
    [model : {"gemini-pro"}, temperature : {7, 5}]

\* AgentDef: provider, model and temperature are optional overrides; the
\* empty string stands for a provider or model left unset.
AgentDefs ==
    [provider    : {"", "claude", "absent"},
     model       : {"", "override-model"},
     temperature : {None, Some(0), Some(15)}]

\* _resolve_provider(agent)
ResolveProvider(agent) ==
    LET name == IF agent.provider # "" THEN agent.provider ELSE DefaultProvider
    IN  IF name \in DOMAIN providers THEN Ok(name)
        ELSE Raise("RuntimeError", "provider is not available")

\* _agent_env, up to its yield: the overrides an agent asks for.
AgentEnvEnter(config, agent) ==
    [config EXCEPT !.model = IF agent.model # "" THEN agent.model ELSE @,
                   !.temperature = IF agent.temperature # None
                                   THEN agent.temperature.val ELSE @]

\* Mutant: the finally clause puts the model back and forgets the temperature.
AgentEnvExit_ModelOnly(config, orig_model, orig_temp) ==
    [config EXCEPT !.model = orig_model]

\* _agent_env, its finally clause.
AgentEnvExit(config, orig_model, orig_temp) ==
    [config EXCEPT !.model = orig_model, !.temperature = orig_temp]

NoAgentCall == [pc |-> "idle"]

\* Whether no AgentRunner call is under way.
AgentCallOver == agent_call.pc \in {"idle", "returned", "raised", "exhausted", "closed"}

\* The call record once _agent_env has been entered for `name`.
Entered(kind, agent, name, before) ==
    [kind |-> kind, agent |-> agent, pc |-> "entered", prov |-> name,
     before |-> before,
     orig_model |-> providers[name].model,
     orig_temp  |-> providers[name].temperature,
     seen   |-> AgentEnvEnter(providers[name], agent),
     chunks |-> 0]

\* The provider configs once the finally clause of _agent_env has run.
Restored(c, configs) ==
    [configs EXCEPT ![c.prov] = AgentEnvExit(@, c.orig_model, c.orig_temp)]

\* The provider configs while the agent's call is inside _agent_env.
Overridden(c) == [providers EXCEPT ![c.prov] = c.seen]

\* AgentRunner.run(agent, prompt): the provider's ask / ask_with_tools
\* returns (outcome "ok") or raises (outcome "raise").
AgentRun(agent, outcome) ==
    /\ AgentCallOver
    /\ agent_calls < MaxAgentCalls
    /\ agent_calls' = agent_calls + 1
    /\ LET resolved == ResolveProvider(agent)
       IN  IF Raised(resolved)
           THEN /\ agent_call' = [kind |-> "run", agent |-> agent, pc |-> "raised",
                                  before |-> providers]
                /\ UNCHANGED providers
           ELSE LET c == Entered("run", agent, resolved.ok, providers)
                IN  /\ providers' = Restored(c, Overridden(c))
                    /\ agent_call' = [c EXCEPT !.pc = IF outcome = "ok" THEN "returned"
                                                      ELSE "raised"]
    /\ UNCHANGED <<loopVars, execVars, segVars, provVars,
                   schemaVars, overlapVars, widgetVars, tuiVars>>

\* runner.stream(agent, prompt): a generator object; nothing runs yet.
AgentStreamCreate(agent) ==
    /\ AgentCallOver
    /\ agent_calls < MaxAgentCalls
    /\ agent_calls' = agent_calls + 1
    /\ agent_call' = [kind |-> "stream", agent |-> agent, pc |-> "created",
                      before |-> providers]
    /\ UNCHANGED <<providers, loopVars, execVars, segVars, provVars,
                   schemaVars, overlapVars, widgetVars, tuiVars>>

\* next() on the generator: prov.stream hands over a chunk, is exhausted,
\* or raises; the first next() enters _agent_env before that.
AgentStreamNext(outcome) ==
    /\ agent_call.pc \in {"created", "suspended"}
    /\ LET first    == agent_call.pc = "created"
           resolved == ResolveProvider(agent_call.agent)
       IN  IF first /\ Raised(resolved)
           THEN /\ agent_call' = [agent_call EXCEPT !.pc = "raised"]
                /\ UNCHANGED providers
           ELSE LET c == IF first
                         THEN Entered("stream", agent_call.agent, resolved.ok,
                                      agent_call.before)
                         ELSE agent_call
                    inside == IF first THEN Overridden(c) ELSE providers
                IN  IF outcome = "chunk"
                    THEN /\ c.chunks < MaxChunks
                         /\ providers' = inside
                         /\ agent_call' = [c EXCEPT !.pc = "suspended",
                                                    !.chunks = @ + 1]
                    ELSE /\ providers' = Restored(c, inside)
                         /\ agent_call' = [c EXCEPT !.pc = IF outcome = "exhausted"
                                                           THEN "exhausted"
                                                           ELSE "raised"]
    /\ UNCHANGED <<agent_calls, loopVars, execVars, segVars, provVars,
                   schemaVars, overlapVars, widgetVars, tuiVars>>

\* close() on the generator: GeneratorExit at the yield runs the finally
\* clause; a generator never started just ends.
AgentStreamClose ==
    /\ agent_call.pc \in {"created", "suspended"}
    /\ providers' = IF agent_call.pc = "suspended"
                    THEN Restored(agent_call, providers)
                    ELSE providers
    /\ agent_call' = [agent_call EXCEPT !.pc = "closed"]
    /\ UNCHANGED <<agent_calls, loopVars, execVars, segVars, provVars,
                   schemaVars, overlapVars, widgetVars, tuiVars>>

\* The providers of the app.
ProviderNames == {"gemini", "claude"}

AgentIdle ==
    /\ providers = [name \in ProviderNames |-> [model |-> "gemini-pro", temperature |-> 7]]
    /\ agent_call = NoAgentCall
    /\ agent_calls = 0

(***************************************************************************)
(* callable_to_tool_def (cascade/tools/schema.py).  A parameter of the     *)
(* callable's signature is [name, has_default, annotation]; the callable   *)
(* has no docstring, so no property carries a description.                 *)
(***************************************************************************)
ParamNames == {"a", "b", "self", "cls"}

\* Annotations: str, int, or none (inspect.Parameter.empty).
Annotations == {"str", "int", "empty"}

Parameters == [name : ParamNames, has_default : BOOLEAN, annotation : Annotations]

\* inspect.signature(fn).parameters: parameters of distinct names (one with
\* a default may precede one without when the latter is keyword-only).
Signatures ==
    {sig \in SeqsUpTo(Parameters, MaxParams) :
        \A i, j \in 1..Len(sig) : i # j => sig[i].name # sig[j].name}

\* _annotation_to_schema(annotation)
AnnotationToSchema(annotation) ==
    CASE annotation = "empty" -> [type |-> "string"]
      [] annotation = "str"   -> [type |-> "string"]
      [] annotation = "int"   -> [type |-> "integer"]

\* `if param_name in ("self", "cls"): continue`
IsImplicit(param) == param.name \in {"self", "cls"}

\* Mutant: every parameter is required.
IsRequired_Always(param) ==
    TRUE

\* `if param.default is inspect.Parameter.empty:`
IsRequired(param) ==
    ~param.has_default

\* The loop over sig.parameters.items(), from the state `acc`.
RECURSIVE DeriveParameters(_, _)
DeriveParameters(params, acc) ==
    IF params = <<>> THEN acc
    ELSE LET param == Head(params)
         IN  DeriveParameters(Tail(params),
                 IF IsImplicit(param) THEN acc
                 ELSE [properties |-> With(acc.properties, param.name,
                                           AnnotationToSchema(param.annotation)),
                       required |-> IF IsRequired(param)
                                    THEN Append(acc.required, param.name)
                                    ELSE acc.required])

\* callable_to_tool_def(name, fn): the ToolDef, as far as its parameters go.
CallableToToolDef(sig) ==
    LET derived == DeriveParameters(sig, [properties |-> <<>>, required |-> <<>>])
        parameters == [type |-> "object", properties |-> derived.properties]
    IN  [parameters |-> IF derived.required # <<>>
                        THEN With(parameters, "required", derived.required)
                        ELSE parameters]

\* td = callable_to_tool_def(name, fn)
DeriveToolDef ==
    /\ tool_def = None
    /\ tool_def' = Some(CallableToToolDef(signature))
    /\ UNCHANGED <<signature, loopVars, execVars, segVars, agentVars, provVars,
                   overlapVars, widgetVars, tuiVars>>

SchemaIdle ==
    /\ signature = <<>>
    /\ tool_def = None

(***************************************************************************)
(* Two agent-scoped calls that may overlap (AgentRunner.run in two worker  *)
(* threads started by CommandHandler._run_in_worker with exclusive=False,  *)
(* or two AgentRunner.stream iterators consumed alternately).  Each call   *)
(* enters _agent_env, stays inside while the provider works, and leaves.   *)
(***************************************************************************)
Calls == {1, 2}

CallKinds == {"run", "stream"}

NotStarted == [pc |-> "idle"]

\* Call i enters _agent_env (run: the with statement in its thread;
\* stream: cm.__enter__() at the first next()).
OverlapEnter(i, kind, agent) ==
    /\ overlap[i].pc = "idle"
    /\ \A j \in Calls : overlap[j].pc # "idle" => overlap[j].kind = kind
    /\ overlap_before' = IF overlap_before = None THEN Some(providers)
                         ELSE overlap_before
    /\ LET resolved == ResolveProvider(agent)
       IN  IF Raised(resolved)
           THEN /\ overlap' = [overlap EXCEPT ![i] = [pc |-> "over", kind |-> kind,
                                                      agent |-> agent, prov |-> "",
                                                      during |-> FALSE]]
                /\ UNCHANGED providers
           ELSE LET name == resolved.ok
                IN  /\ overlap' = [overlap EXCEPT ![i] =
                           [pc |-> "inside", kind |-> kind, agent |-> agent,
                            prov |-> name,
                            orig_model |-> providers[name].model,
                            orig_temp  |-> providers[name].temperature,
                            during |-> \E j \in Calls :
                                          /\ overlap[j].pc = "inside"
                                          /\ overlap[j].prov = name]]
                    /\ providers' = [providers EXCEPT ![name] = AgentEnvEnter(@, agent)]
    /\ UNCHANGED <<agent_call, agent_calls, loopVars, execVars, segVars, provVars,
                   schemaVars, widgetVars, tuiVars>>

\* Call i leaves _agent_env: the provider call returned or raised, the
\* stream was exhausted or closed.
OverlapExit(i) ==
    /\ overlap[i].pc = "inside"
    /\ providers' = [providers EXCEPT ![overlap[i].prov] =
                        AgentEnvExit(@, overlap[i].orig_model, overlap[i].orig_temp)]
    /\ overlap' = [overlap EXCEPT ![i].pc = "over"]
    /\ UNCHANGED <<overlap_before, agent_call, agent_calls, loopVars, execVars,
                   segVars, provVars, schemaVars, widgetVars, tuiVars>>

OverlapIdle ==
    /\ overlap = [i \in Calls |-> NotStarted]
    /\ overlap_before = None

(***************************************************************************)
(* StreamMessage (cascade/widgets/stream_message.py).  `out` is what the   *)
(* widget has shown: the prose lines appended and the CodeBlocks mounted.  *)
(***************************************************************************)
NewStreamMessage ==
    [state |-> "PROSE", line_buf |-> "", code_buf |-> "", code_lang |-> "",
     out |-> <<>>, finished |-> FALSE]

\* self._prose_lines.append(line); self._refresh_prose()
MsgAppendProse(w, line) ==
    [w EXCEPT !.out = Append(@, [prose |-> line])]

\* _emit_code_block(code, language): CodeBlock(code, language or "text")
MsgEmitCodeBlock(w, code, language) ==
    IF Strip(code) = "" THEN w
    ELSE [w EXCEPT !.out = Append(@, CodeEvent(code, IF language = "" THEN "text"
                                                     ELSE language))]

\* StreamMessage._process_char(ch)
MsgProcessChar(w, ch) ==
    LET buf == w.line_buf \o ch
    IN  IF w.state = "PROSE"
        THEN IF ch = "\n"
             THEN LET line     == RStrip(buf, {"\n"})
                      stripped == Strip(line)
                  IN  IF StartsWith(stripped, Fence)
                      THEN [w EXCEPT !.code_lang = Strip(SubSeq(stripped, 4, Len(stripped))),
                                     !.state = "CODE_BLOCK",
                                     !.code_buf = "",
                                     !.line_buf = ""]
                      ELSE [MsgAppendProse(w, line) EXCEPT !.line_buf = ""]
             ELSE [w EXCEPT !.line_buf = buf]
        ELSE IF ch = "\n"
             THEN LET line == RStrip(buf, {"\n"})
                  IN  IF Strip(line) = Fence
                      THEN [MsgEmitCodeBlock(w, RStrip(w.code_buf, {"\n"}), w.code_lang)
                               EXCEPT !.code_buf = "",
                                      !.code_lang = "",
                                      !.state = "PROSE",
                                      !.line_buf = ""]
                      ELSE [w EXCEPT !.code_buf = @ \o buf, !.line_buf = ""]
             ELSE [w EXCEPT !.line_buf = buf]

\* StreamMessage.feed(chunk)
RECURSIVE MsgFeedChunk(_, _)
MsgFeedChunk(w, chunk) ==
    IF chunk = "" THEN w
    ELSE MsgFeedChunk(MsgProcessChar(w, Char(chunk, 1)), SubSeq(chunk, 2, Len(chunk)))

\* StreamMessage.finish()
MsgFinish(w) ==
    LET flushed ==
            IF w.state = "CODE_BLOCK"
            THEN [(IF w.code_buf # ""
                   THEN MsgEmitCodeBlock(w, RStrip(w.code_buf, {"\n"}), w.code_lang)
                   ELSE w)
                     EXCEPT !.code_buf = "", !.state = "PROSE"]
            ELSE w
    IN  IF Strip(flushed.line_buf) # ""
        THEN [MsgAppendProse(flushed, flushed.line_buf) EXCEPT !.line_buf = ""]
        ELSE flushed

\* The characters fed to the widget so far.
WidgetFed == Len(Join(widget_chunks))

\* msg.feed(chunk) with the next n characters of the stream.
WidgetFeed(n) ==
    /\ ~widget.finished
    /\ Len(widget_chunks) < MaxChunks
    /\ WidgetFed + n <= Len(stream_text)
    /\ LET chunk == SubSeq(stream_text, WidgetFed + 1, WidgetFed + n)
       IN  /\ widget' = MsgFeedChunk(widget, chunk)
           /\ widget_chunks' = Append(widget_chunks, chunk)
    /\ UNCHANGED <<loopVars, execVars, segVars, agentVars, provVars,
                   schemaVars, overlapVars, tuiVars>>

\* msg.finish()
WidgetFinish ==
    /\ ~widget.finished
    /\ widget' = [MsgFinish(widget) EXCEPT !.finished = TRUE]
    /\ UNCHANGED <<widget_chunks, loopVars, execVars, segVars, agentVars, provVars,
                   schemaVars, overlapVars, tuiVars>>

WidgetIdle ==
    /\ widget = NewStreamMessage
    /\ widget_chunks = <<>>

(***************************************************************************)
(* The TUI's streaming bridge (cascade/screens/main.py).  Prompts are      *)
(* numbered in the order they are submitted; the StreamMessage mounted for *)
(* prompt p is mounted[p], the worker thread started for it is workers[p]. *)
(* A callback passed to app.call_from_thread runs on the UI thread while   *)
(* the worker waits for it, so a worker step and its callback are one step.*)
(***************************************************************************)
Prompts == 1..MaxPrompts

NoWorker == [pc |-> "none"]

\* on_input_submitted -> _send_to_provider(prompt): a StreamMessage is
\* mounted and kept in self._stream_msg, a thread worker is started with
\* exclusive=True, which cancels the workers started before.  `available`
\* is whether cli_app.providers has the active provider.
SendToProvider(available) ==
    /\ Len(mounted) < MaxPrompts
    /\ LET p == Len(mounted) + 1
       IN  /\ mounted' = Append(mounted, [prompt |-> p, fed |-> <<>>, finishes |-> 0])
           /\ stream_msg' = p
           /\ workers' = [q \in Prompts |->
                            IF q = p
                            THEN [pc |-> "running", available |-> available,
                                  sent |-> 0, cancelled |-> FALSE]
                            ELSE IF workers[q].pc = "running"
                            THEN [workers[q] EXCEPT !.cancelled = TRUE]
                            ELSE workers[q]]
    /\ UNCHANGED <<loopVars, execVars, segVars, agentVars, provVars,
                   schemaVars, overlapVars, widgetVars>>

\* _provider_worker: the next chunk of prov.stream(...) and
\* call_from_thread(self._on_stream_chunk, chunk), which feeds
\* self._stream_msg.
WorkerChunk(p) ==
    /\ workers[p].pc = "running"
    /\ workers[p].available
    /\ workers[p].sent < MaxWorkerChunks
    /\ workers' = [workers EXCEPT ![p].sent = @ + 1]
    /\ mounted' = [mounted EXCEPT ![stream_msg].fed = Append(@, p)]
    /\ UNCHANGED <<stream_msg, loopVars, execVars, segVars, agentVars, provVars,
                   schemaVars, overlapVars, widgetVars>>

\* _provider_worker: the stream is exhausted and
\* call_from_thread(self._on_stream_done, ...), which finishes
\* self._stream_msg.
WorkerDone(p) ==
    /\ workers[p].pc = "running"
    /\ workers[p].available
    /\ workers' = [workers EXCEPT ![p].pc = "done"]
    /\ mounted' = [mounted EXCEPT ![stream_msg].finishes = @ + 1]
    /\ UNCHANGED <<stream_msg, loopVars, execVars, segVars, agentVars, provVars,
                   schemaVars, overlapVars, widgetVars>>

\* _provider_worker: `if prov is None:` and
\* call_from_thread(self._on_stream_error, ...), which mounts an error
\* message and leaves self._stream_msg alone.
WorkerError(p) ==
    /\ workers[p].pc = "running"
    /\ ~workers[p].available
    /\ workers' = [workers EXCEPT ![p].pc = "failed"]
    /\ UNCHANGED <<stream_msg, mounted, loopVars, execVars, segVars, agentVars,
                   provVars, schemaVars, overlapVars, widgetVars>>

\* A worker cancelled by a later exclusive worker: its thread runs on (the
\* steps above) or is not heard of again (this step).
WorkerDropped(p) ==
    /\ workers[p].pc = "running"
    /\ workers[p].cancelled
    /\ workers' = [workers EXCEPT ![p].pc = "dropped"]
    /\ UNCHANGED <<stream_msg, mounted, loopVars, execVars, segVars, agentVars,
                   provVars, schemaVars, overlapVars, widgetVars>>

TuiIdle ==
    /\ stream_msg = 0
    /\ mounted = <<>>
    /\ workers = [p \in Prompts |-> NoWorker]

\* The components a specification does not exercise, as constructed.
RestIdle == SchemaIdle /\ OverlapIdle /\ WidgetIdle /\ TuiIdle

(***************************************************************************)
(* Specification of the tool-calling loops                                 *)
(***************************************************************************)
Adapters == {"claude", "openai", "gemini"}

\* The system argument: "" stands for None.
Systems == {"", "s"}

InitMessages(a, system) ==
    CASE a = "claude" -> ClaudeInitMessages
      [] a = "openai" -> OpenAIInitMessages(system)
      [] a = "gemini" -> GeminiInitContents(system)

LoopInit ==
    /\ adapter \in Adapters
    /\ max_rounds \in 0..MaxRounds
    /\ pc = "running"
    /\ round = 0
    /\ \E system \in Systems : messages = InitMessages(adapter, system)
    /\ tool_log = <<>>
    /\ last_text = Unbound
    /\ ret = NoReturn
    /\ exc = NoExc
    /\ sent = <<>>
    /\ replies = <<>>
    /\ handler_calls = <<>>

\* The state of each component while a specification exercises another one.
LoopIdle ==
    /\ adapter = "claude"
    /\ max_rounds = 0
    /\ pc = "idle"
    /\ round = 0
    /\ messages = <<>>
    /\ tool_log = <<>>
    /\ last_text = Unbound
    /\ ret = NoReturn
    /\ exc = NoExc
    /\ sent = <<>>
    /\ replies = <<>>
    /\ handler_calls = <<>>

ExecIdle == executed = <<>>

SegIdle ==
    /\ renderer = NewRenderer
    /\ stream_text = ""
    /\ fed = 0
    /\ feeds = 0
    /\ finished = FALSE

Next ==
    \/ \E reply \in ClaudeReplies : ClaudeRound(reply)
    \/ ClaudeExhausted
    \/ \E reply \in OpenAIReplies : OpenAIRound(reply)
    \/ OpenAIExhausted
    \/ \E reply \in GeminiReplies : GeminiRound(reply)
    \/ GeminiExhausted

Init == LoopInit /\ ExecIdle /\ SegIdle /\ AgentIdle /\ ProvIdle /\ RestIdle

Spec == Init /\ [][Next]_vars

(***************************************************************************)
(* Specification of the executor on its own                                *)
(***************************************************************************)
ExecInit == LoopIdle /\ ExecIdle /\ SegIdle /\ AgentIdle /\ ProvIdle /\ RestIdle

ExecNext ==
    \E tool_name \in ExecuteNames, arguments \in ExecuteArguments :
        ExecuteCall(tool_name, arguments)

SpecExec == ExecInit /\ [][ExecNext]_vars

(***************************************************************************)
(* Specification of the streaming renderer                                 *)
(***************************************************************************)
SegInit ==
    /\ LoopIdle /\ ExecIdle /\ AgentIdle /\ ProvIdle /\ RestIdle
    /\ renderer = NewRenderer
    /\ stream_text \in StreamedTexts
    /\ fed = 0
    /\ feeds = 0
    /\ finished = FALSE

SegNext ==
    \/ \E n \in 1..Len(stream_text) : Feed(n)
    \/ Finish

SpecSeg == SegInit /\ [][SegNext]_vars

(***************************************************************************)
(* Specification of the agent runner                                       *)
(***************************************************************************)
AgentOutcomes == {"ok", "raise"}

StreamOutcomes == {"chunk", "exhausted", "raise"}

AgentInit ==
    /\ LoopIdle /\ ExecIdle /\ SegIdle /\ ProvIdle /\ RestIdle
    /\ providers \in [ProviderNames -> ProviderConfigs]
    /\ agent_call = NoAgentCall
    /\ agent_calls = 0

AgentNext ==
    \/ \E agent \in AgentDefs, outcome \in AgentOutcomes : AgentRun(agent, outcome)
    \/ \E agent \in AgentDefs : AgentStreamCreate(agent)
    \/ \E outcome \in StreamOutcomes : AgentStreamNext(outcome)
    \/ AgentStreamClose

SpecAgent == AgentInit /\ [][AgentNext]_vars

(***************************************************************************)
(* Specification of a provider's stream / ask / ask_with_tools calls       *)
(***************************************************************************)
ProvInit ==
    /\ LoopIdle /\ ExecIdle /\ SegIdle /\ AgentIdle /\ RestIdle
    /\ prov_adapter \in StreamAdapters
    /\ last_usage = None
    /\ prov_call = NoCall
    /\ calls_made = 0

ProvNext ==
    \/ StreamCreate
    \/ \E opened \in Openings : StreamNext(opened)
    \/ \E line \in UNION {StreamLines(a) : a \in StreamAdapters} : ReadLine(line)
    \/ \E how \in {"eof", "read"} : ReadEnd(how)
    \/ StreamClose
    \/ \E opened \in Openings : Ask(opened)
    \/ \E reports \in SeqsUpTo(RoundReports, MaxRounds) \ {<<>>} : AskWithTools(reports)

SpecProv == ProvInit /\ [][ProvNext]_vars

(***************************************************************************)
(* Specification of callable_to_tool_def                                   *)
(***************************************************************************)
SchemaInit ==
    /\ LoopIdle /\ ExecIdle /\ SegIdle /\ AgentIdle /\ ProvIdle
    /\ OverlapIdle /\ WidgetIdle /\ TuiIdle
    /\ signature \in Signatures
    /\ tool_def = None

SchemaNext == DeriveToolDef

SpecSchema == SchemaInit /\ [][SchemaNext]_vars

(***************************************************************************)
(* Specification of two overlapping agent-scoped calls                     *)
(***************************************************************************)
OverlapInit ==
    /\ LoopIdle /\ ExecIdle /\ SegIdle /\ ProvIdle
    /\ SchemaIdle /\ OverlapIdle /\ WidgetIdle /\ TuiIdle
    /\ providers \in [ProviderNames -> ProviderConfigs]
    /\ agent_call = NoAgentCall
    /\ agent_calls = 0

OverlapNext ==
    \/ \E i \in Calls, kind \in CallKinds, agent \in AgentDefs :
          OverlapEnter(i, kind, agent)
    \/ \E i \in Calls : OverlapExit(i)

SpecOverlap == OverlapInit /\ [][OverlapNext]_vars

(***************************************************************************)
(* Specification of the StreamMessage widget                               *)
(***************************************************************************)
WidgetInit ==
    /\ LoopIdle /\ ExecIdle /\ AgentIdle /\ ProvIdle
    /\ SchemaIdle /\ OverlapIdle /\ WidgetIdle /\ TuiIdle
    /\ renderer = NewRenderer
    /\ stream_text \in StreamedTexts
    /\ fed = 0
    /\ feeds = 0
    /\ finished = FALSE

WidgetNext ==
    \/ \E n \in 1..MaxLen : WidgetFeed(n)
    \/ WidgetFinish

SpecWidget == WidgetInit /\ [][WidgetNext]_vars

(***************************************************************************)
(* Specification of the TUI's streaming bridge                             *)
(***************************************************************************)
TuiInit ==
    /\ LoopIdle /\ ExecIdle /\ SegIdle /\ AgentIdle /\ ProvIdle
    /\ SchemaIdle /\ OverlapIdle /\ WidgetIdle /\ TuiIdle

TuiNext ==
    \/ \E available \in BOOLEAN : SendToProvider(available)
    \/ \E p \in Prompts : WorkerChunk(p)
    \/ \E p \in Prompts : WorkerDone(p)
    \/ \E p \in Prompts : WorkerError(p)
    \/ \E p \in Prompts : WorkerDropped(p)

SpecTui == TuiInit /\ [][TuiNext]_vars


(***************************************************************************)
(* The vendor's answers, read off the wire format of each adapter          *)
(***************************************************************************)
IsHttpFailure(reply) == Has(reply, "http_error")

\* The tool-call entries a response carries, in order.
ReplyCalls(a, reply) ==
    IF IsHttpFailure(reply) THEN <<>>
    ELSE CASE a = "claude" ->
                SelectSeq(Get(reply.data, "content", <<>>),
                          LAMBDA b : Has(b, "type") /\ b.type = "tool_use")
           [] a = "openai" ->
                IF Get(reply.data, "choices", <<>>) = <<>> THEN <<>>
                ELSE Get(Get(reply.data.choices[1], "message", <<>>), "tool_calls", <<>>)
           [] a = "gemini" ->
                IF Get(reply.data, "candidates", <<>>) = <<>> THEN <<>>
                ELSE SelectSeq(Get(Get(reply.data.candidates[1], "content", <<>>),
                                   "parts", <<>>),
                               LAMBDA part : ~Has(part, "text") /\ Has(part, "functionCall"))

\* The vendor's stop signal says "tool call" (Gemini has no such signal).
SignalsToolCall(a, reply) ==
    /\ ~IsHttpFailure(reply)
    /\ CASE a = "claude" -> Has(reply.data, "stop_reason")
                            /\ reply.data.stop_reason = "tool_use"
         [] a = "openai" -> /\ Get(reply.data, "choices", <<>>) # <<>>
                            /\ Has(reply.data.choices[1], "finish_reason")
                            /\ reply.data.choices[1].finish_reason = "tool_calls"
         [] a = "gemini" -> TRUE

\* A tool-call response: the signal, and at least one tool call.
RequestsTools(a, reply) == SignalsToolCall(a, reply) /\ ReplyCalls(a, reply) # <<>>

\* The name / id / arguments fields of a tool-call entry, where the format has them.
CallFields(a, c) ==
    CASE a = "claude" -> c
      [] a = "openai" -> IF Has(c, "function") THEN c.function ELSE <<>>
      [] a = "gemini" -> c.functionCall

HasId(a, c) == a = "gemini" \/ Has(c, "id")

\* A tool call as the vendor's format documents it: an id, a string name,
\* and arguments of the documented type when given (a JSON-text str for the
\* OpenAI format).
Answerable(a, c) ==
    LET f == CallFields(a, c)
    IN  /\ HasId(a, c)
        /\ Has(f, "name") /\ IsStr(f.name)
        /\ (a = "openai" /\ Has(f, "arguments")) => IsStr(f.arguments)

AllAnswerable(a, reply) ==
    \A i \in 1..Len(ReplyCalls(a, reply)) : Answerable(a, ReplyCalls(a, reply)[i])

\* The text a response carries.
ReplyText(a, reply) ==
    IF IsHttpFailure(reply) THEN ""
    ELSE CASE a = "claude" ->
                LET texts == SelectSeq(Get(reply.data, "content", <<>>),
                                       LAMBDA b : Has(b, "type") /\ b.type = "text")
                IN  IF texts = <<>> THEN "" ELSE texts[1].text
           [] a = "openai" ->
                IF Get(reply.data, "choices", <<>>) = <<>> THEN ""
                ELSE Get(Get(reply.data.choices[1], "message", <<>>), "content", "")
           [] a = "gemini" ->
                IF Get(reply.data, "candidates", <<>>) = <<>> THEN ""
                ELSE LET texts == SelectSeq(
                                    Get(Get(reply.data.candidates[1], "content", <<>>),
                                        "parts", <<>>),
                                    LAMBDA part : Has(part, "text"))
                     IN  IF texts = <<>> THEN "" ELSE texts[1].text

\* Every answer so far was a tool-call response with answerable calls.
OnlyAnswerableToolCalls ==
    \A j \in 1..Len(replies) :
        RequestsTools(adapter, replies[j]) /\ AllAnswerable(adapter, replies[j])

\* The request payloads so far, followed by the history as it now stands.
History == Append(sent, messages)

\* The answer received in the step just taken, when the step was a round.
NewReply == replies'[Len(replies')]

RoundTaken == Len(replies') = Len(replies) + 1

(***************************************************************************)
(* C1: for every max_rounds N >= 1 and every adapter, when the vendor      *)
(* answers every request with a tool-call response, ask_with_tools issues  *)
(* exactly N HTTP requests and then returns: never more than N requests,   *)
(* a call that has ended has returned (not raised) after exactly N         *)
(* requests, and a call that has not ended can still take a step.          *)
(***************************************************************************)
\* Every answer so far was a tool-call response.
AlwaysToolCalls == \A j \in 1..Len(replies) : RequestsTools(adapter, replies[j])

C1_ExactlyMaxRoundsRequests ==
    /\ Len(sent) <= max_rounds
    /\ (max_rounds >= 1 /\ AlwaysToolCalls) =>
          /\ pc # "raised"
          /\ pc = "returned" => Len(sent) = max_rounds
          /\ pc = "running" => ENABLED Next

(***************************************************************************)
(* C2: for every non-negative max_rounds, 0 included, and every adapter,   *)
(* when the rounds are exhausted without a non-tool response               *)
(* ask_with_tools returns a (text, tool log) pair and does not raise.      *)
(* The rounds are exhausted when each of the max_rounds requests was       *)
(* answered by a tool-call response the loop went through to its end.      *)
(***************************************************************************)
C2_ExhaustionReturns ==
    (pc # "running" /\ Len(replies) = max_rounds /\ OnlyAnswerableToolCalls) =>
        /\ pc = "returned"
        /\ Has(ret, "text") /\ Has(ret, "log")

(***************************************************************************)
(* C5: in the Claude loop, for every round whose response requests k >= 1  *)
(* tool calls, before the next request is issued the history has gained    *)
(* the model's raw assistant turn followed by exactly one user turn of k   *)
(* tool_result blocks, the i-th keyed by the id of the i-th tool_use.      *)
(***************************************************************************)
C5_ToolResultTurnKeyedById ==
    adapter = "claude" =>
        \A j \in 1..Len(replies) :
            (RequestsTools("claude", replies[j]) /\ (j < Len(replies) \/ pc # "raised")) =>
                LET calls  == ReplyCalls("claude", replies[j])
                    before == History[j]
                    after  == History[j + 1]
                    n      == Len(before)
                IN  /\ Len(after) = n + 2
                    /\ SubSeq(after, 1, n) = before
                    /\ after[n + 1] = [role |-> "assistant",
                                       content |-> [blocks |-> replies[j].data.content]]
                    /\ after[n + 2].role = "user"
                    /\ Len(after[n + 2].content.blocks) = Len(calls)
                    /\ \A i \in 1..Len(calls) :
                          /\ after[n + 2].content.blocks[i].type = "tool_result"
                          /\ after[n + 2].content.blocks[i].tool_use_id = calls[i].id

C5_Witness ==
    /\ adapter = "claude"
    /\ Len(sent) = 2
    /\ Len(ReplyCalls("claude", replies[1])) = 2

(***************************************************************************)
(* C6: in every request the OpenAI-compatible loop sends, each assistant   *)
(* message that carries tool_calls is immediately followed by exactly one  *)
(* role "tool" message per entry of its tool_calls, in the same order,     *)
(* each with tool_call_id equal to that entry's id.                        *)
(***************************************************************************)
CarriesToolCalls(m) ==
    Has(m, "role") /\ m.role = "assistant" /\ Has(m, "tool_calls") /\ m.tool_calls # <<>>

C6_EveryToolCallAnswered ==
    adapter = "openai" =>
        \A j \in 1..Len(sent) :
            \A p \in 1..Len(sent[j]) :
                CarriesToolCalls(sent[j][p]) =>
                    LET payload == sent[j]
                        calls   == payload[p].tool_calls
                        k       == Len(calls)
                    IN  /\ p + k <= Len(payload)
                        /\ \A i \in 1..k :
                              /\ payload[p + i].role = "tool"
                              /\ payload[p + i].tool_call_id = calls[i].id
                        /\ p + k < Len(payload) => payload[p + k + 1].role # "tool"

C6_Witness ==
    /\ adapter = "openai"
    /\ Len(sent) = 2
    /\ \E p \in 1..Len(sent[2]) :
          CarriesToolCalls(sent[2][p]) /\ Len(sent[2][p].tool_calls) = 2

(***************************************************************************)
(* C7: when a model response carries no tool call, ask_with_tools returns  *)
(* that response's text together with the tool log built so far, and after *)
(* that response it issues no further request and executes no tool.        *)
(***************************************************************************)
C7_Step ==
    /\ (RoundTaken /\ ~IsHttpFailure(NewReply) /\ ReplyCalls(adapter, NewReply) = <<>>) =>
          /\ pc' = "returned"
          /\ ret' = Returned(ReplyText(adapter, NewReply), tool_log)
          /\ tool_log' = tool_log
          /\ handler_calls' = handler_calls
    /\ pc = "returned" => UNCHANGED <<sent, handler_calls, tool_log, ret>>

C7_NoToolCallReturnsText == [][C7_Step]_vars

C7_Witness ==
    /\ pc = "returned"
    /\ Len(replies) = 2
    /\ ~IsHttpFailure(replies[2])
    /\ ReplyCalls(adapter, replies[2]) = <<>>
    /\ ret.text = "a"
    /\ ret.log # <<>>

(***************************************************************************)
(* C8: when a requested tool call fails in the executor (unknown tool,     *)
(* bad arguments, handler exception) the loop appends the {"error": ...}   *)
(* string to the history as that call's tool result exactly as it would a  *)
(* success, and stays in the loop: a tool failure neither ends it nor      *)
(* raises, and the next round's request can be issued.                     *)
(***************************************************************************)
\* The result strings the turns appended in this step hand back, in order.
AppendedResults(a) ==
    LET n == Len(messages)
    IN  CASE a = "claude" ->
               [i \in 1..Len(messages'[n + 2].content.blocks) |->
                   messages'[n + 2].content.blocks[i].content]
          [] a = "openai" ->
               [i \in 1..(Len(messages') - n - 1) |-> messages'[n + 1 + i].content]
          [] a = "gemini" ->
               [i \in 1..Len(messages'[n + 2].parts) |->
                   messages'[n + 2].parts[i].functionResponse.response.result]

\* The tool_log entries of the tool calls executed in this step.
NewlyLogged == (Len(tool_log) + 1)..Len(tool_log')

FailedInExecutor(entry) == Has(entry.output.json, "error")

C8_Step ==
    RoundTaken =>
        \A i \in NewlyLogged :
            FailedInExecutor(tool_log'[i]) =>
                /\ pc' = "running"
                /\ exc' = NoExc
                /\ Len(AppendedResults(adapter)) = Len(tool_log') - Len(tool_log)
                /\ AppendedResults(adapter)[i - Len(tool_log)] = tool_log'[i].output

C8_ToolFailureFedBack == [][C8_Step]_vars

(***************************************************************************)
(* C9: if the HTTP request of any round fails, ask_with_tools returns a    *)
(* text beginning "Error: " together with the tool log accumulated in the  *)
(* earlier rounds, without raising and without any further request.        *)
(***************************************************************************)
C9_Step ==
    /\ (RoundTaken /\ IsHttpFailure(NewReply)) =>
          /\ pc' = "returned"
          /\ exc' = NoExc
          /\ Len(ret'.text) >= 7 /\ SubSeq(ret'.text, 1, 7) = "Error: "
          /\ ret'.log = tool_log
          /\ handler_calls' = handler_calls
    /\ pc = "returned" => UNCHANGED <<sent, ret>>

C9_HttpFailureFolded == [][C9_Step]_vars

C9_Witness ==
    /\ pc = "returned"
    /\ Len(replies) = 2
    /\ IsHttpFailure(replies[2])
    /\ ret.log # <<>>

(***************************************************************************)
(* C10: ask_with_tools never raises for any successfully received vendor   *)
(* response, whatever its shape.                                           *)
(***************************************************************************)
C10_NeverRaisesOnAnyShape == Len(replies) >= 1 => pc # "raised"

(***************************************************************************)
(* C3: for every input text and every way of splitting it into consecutive *)
(* chunks, feeding the chunks in order and then calling finish() produces  *)
(* exactly the events that feeding the whole text in one feed() call and   *)
(* then calling finish() produces.                                         *)
(***************************************************************************)
\* What one feed() of the whole of `whole`, then finish(), renders.
RenderedWhole(whole) == FinishRenderer(FeedChunk(NewRenderer, whole)).out

C3_ChunkingDoesNotMatter ==
    finished => renderer.out = RenderedWhole(SubSeq(stream_text, 1, fed))

\* The text of the tests fed one character at a time, so that both fences
\* are cut, and finished.
C3_Witness ==
    /\ finished
    /\ stream_text = Fence \o "python\nx=1\n" \o Fence \o "\n"
    /\ fed = Len(stream_text)
    /\ feeds = Len(stream_text)
    /\ renderer.out = <<CodeEvent("x=1", "python")>>

(***************************************************************************)
(* C4: ToolExecutor.execute never raises: for every tool name and every    *)
(* arguments value it returns a JSON object string whose single key is     *)
(* "result" when the handler ran to completion and "error" otherwise; for  *)
(* an unknown name no handler is invoked.                                  *)
(***************************************************************************)
C4_ExecuteNeverRaises ==
    \A i \in 1..Len(executed) :
        LET call == executed[i]
        IN  /\ ~Raised(call.run.out)
            /\ DOMAIN call.run.out.ok.json =
                  IF call.run.completed THEN {"result"} ELSE {"error"}
            /\ (IsStr(call.tool_name) /\ call.tool_name.str \notin ToolNames) =>
                  ~call.run.invoked

(***************************************************************************)
(* Lines of the streamed text, read off the text itself                    *)
(***************************************************************************)
\* str.split("\n") continued from the line `cur` begun so far.
RECURSIVE SplitFrom(_, _)
SplitFrom(s, cur) ==
    IF s = "" THEN <<cur>>
    ELSE IF Char(s, 1) = "\n" THEN <<cur>> \o SplitFrom(SubSeq(s, 2, Len(s)), "")
    ELSE SplitFrom(SubSeq(s, 2, Len(s)), cur \o Char(s, 1))

\* s.split("\n"): the last element is the line still lacking its newline.
SplitLines(s) == SplitFrom(s, "")

\* The lines of s that are terminated by a newline.
CompleteLines(s) == SubSeq(SplitLines(s), 1, Len(SplitLines(s)) - 1)

\* Whether the elements of a occur in b in the same order.
RECURSIVE IsSubsequence(_, _)
IsSubsequence(a, b) ==
    IF a = <<>> THEN TRUE
    ELSE IF b = <<>> THEN FALSE
    ELSE IF Head(a) = Head(b) THEN IsSubsequence(Tail(a), Tail(b))
    ELSE IsSubsequence(a, Tail(b))

IsProse(event) == Has(event, "prose")

IsCode(event) == Has(event, "code")

\* The texts of the prose lines among `events`, in order.
ProseTexts(events) ==
    LET prose == SelectSeq(events, IsProse)
    IN  [i \in 1..Len(prose) |-> prose[i].prose]

\* What the step just taken emitted.
NewEvents == SubSeq(renderer'.out, Len(renderer.out) + 1, Len(renderer'.out))

FeedTaken == fed' > fed

FinishTaken == ~finished /\ finished'

\* The text fed so far, and the text fed once the step is taken.
FedText == SubSeq(stream_text, 1, fed)

FedTextAfter == SubSeq(stream_text, 1, fed')

(***************************************************************************)
(* C13: feed() emits a prose line only at the moment that line's           *)
(* terminating newline is consumed, and the emitted text is the whole line *)
(* accumulated since the previous newline across all feed() calls; for a   *)
(* line still lacking its newline nothing is emitted until finish().       *)
(* In a feed() step: no more events are emitted than newlines are          *)
(* consumed, and the prose texts emitted are, in order, whole lines of the *)
(* streamed text whose newline this feed() consumed.                       *)
(***************************************************************************)
C13_Step ==
    FeedTaken =>
        LET before   == Len(CompleteLines(FedText))
            after    == CompleteLines(FedTextAfter)
            finished_now == SubSeq(after, before + 1, Len(after))
        IN  /\ SubSeq(renderer'.out, 1, Len(renderer.out)) = renderer.out
            /\ Len(NewEvents) <= Len(finished_now)
            /\ IsSubsequence(ProseTexts(NewEvents), finished_now)

C13_ProseOnlyOnCompletedLine == [][C13_Step]_vars

\* "Hello " then "world\n": the second feed() emits the one line
\* "Hello world", the first emitted nothing.
C13_Witness ==
    /\ stream_text = "Hello world\n"
    /\ fed = Len(stream_text)
    /\ feeds = 2
    /\ ~finished
    /\ renderer.out = <<[prose |-> "Hello world", first |-> TRUE]>>

(***************************************************************************)
(* C14: if finish() is called while the segmenter is in CODE_BLOCK with a  *)
(* non-empty accumulated body, it emits one code block carrying the        *)
(* language of the opening fence and that body (less its trailing          *)
(* newlines), although no closing fence was ever seen.                     *)
(***************************************************************************)
C14_Step ==
    (FinishTaken /\ renderer.state = "CODE_BLOCK" /\ renderer.code_buf # "") =>
        /\ Len(SelectSeq(NewEvents, IsCode)) = 1
        /\ NewEvents[1] = CodeEvent(RStrip(renderer.code_buf, {"\n"}), renderer.code_lang)
        /\ SubSeq(renderer'.out, 1, Len(renderer.out)) = renderer.out

C14_UnterminatedBlockEmitted == [][C14_Step]_vars

\* The unterminated block of the tests, fed in more than one chunk.
C14_Witness ==
    /\ finished
    /\ stream_text = Fence \o "python\nx=1\n"
    /\ fed = Len(stream_text)
    /\ feeds > 1
    /\ renderer.out = <<CodeEvent("x=1", "python")>>

(***************************************************************************)
(* C15: when finish() is called in CODE_BLOCK state, all text fed since    *)
(* the opening fence, including a final line not yet terminated by a       *)
(* newline, is emitted as the body of that one code block; no text from    *)
(* inside the unterminated block is emitted as a prose line.               *)
(***************************************************************************)
C15_Step ==
    (FinishTaken /\ renderer.state = "CODE_BLOCK") =>
        LET body == renderer.code_buf \o renderer.line_buf
        IN  /\ SelectSeq(NewEvents, IsProse) = <<>>
            /\ body # "" =>
                  /\ Len(NewEvents) = 1
                  /\ IsCode(NewEvents[1])
                  /\ NewEvents[1].lang = renderer.code_lang
                  /\ RStrip(NewEvents[1].code, {"\n"}) = RStrip(body, {"\n"})

C15_OpenBlockFlushedWhole == [][C15_Step]_vars

(***************************************************************************)
(* C16: after any sequence of feed() calls followed by finish(), no fed    *)
(* content has been dropped: all fed text other than fence lines and line  *)
(* terminators appears in an emitted prose line or in an emitted           *)
(* code-block body.                                                        *)
(***************************************************************************)
\* A line that reads as a fence marker, with or without a language.
IsFenceLine(line) == StartsWith(Strip(line), Fence)

\* The lines that carry text other than a fence.
ContentLines(lines) ==
    SelectSeq(lines, LAMBDA line : line # "" /\ ~IsFenceLine(line))

\* The lines the events hold: a prose line each, the lines of a code body.
RECURSIVE EmittedLines(_)
EmittedLines(events) ==
    IF events = <<>> THEN <<>>
    ELSE (IF IsProse(Head(events)) THEN <<Head(events).prose>>
          ELSE SplitLines(Head(events).code))
         \o EmittedLines(Tail(events))

LinesButBlankTail(s) ==
    LET lines == SplitLines(s)
    IN  IF Strip(lines[Len(lines)]) = "" THEN SubSeq(lines, 1, Len(lines) - 1)
        ELSE lines

DispatchedName(a, c) ==
    IF a = "openai" THEN Get(CallFields(a, c), "name", JStr(""))
    ELSE CallFields(a, c).name

\* The arguments a tool-call entry dispatches with, parsed.
ParsedInput(a, c) ==
    LET f == CallFields(a, c)
    IN  CASE a = "claude" -> Get(f, "input", JObj({}))
          [] a = "gemini" -> Get(f, "args", JObj({}))
          [] a = "openai" ->
               IF ~Has(f, "arguments") THEN JObj({})
               ELSE IF Has(f.arguments.str, "json") THEN f.arguments.str.json
               ELSE JObj({})

\* The record of one dispatch.
DispatchRecord(a, c) ==
    [tool   |-> DispatchedName(a, c),
     input  |-> ParsedInput(a, c),
     output |-> Execute(DispatchedName(a, c), ParsedInput(a, c)).out.ok]

\* The dispatches the answers `rs` ask for, in order.
RECURSIVE Dispatches(_, _)
Dispatches(a, rs) ==
    IF rs = <<>> THEN <<>>
    ELSE LET calls == IF RequestsTools(a, Head(rs)) THEN ReplyCalls(a, Head(rs))
                      ELSE <<>>
         IN  [i \in 1..Len(calls) |-> DispatchRecord(a, calls[i])]
             \o Dispatches(a, Tail(rs))

C20_LogHoldsEveryDispatch ==
    pc = "returned" =>
        /\ ret.log = Dispatches(adapter, replies)
        /\ Len(ret.log) = Len(handler_calls)
                          + Len(SelectSeq(ret.log, LAMBDA e :
                                  e.tool.str \notin ToolNames))

\* Two dispatches in the first round, one of them failing, then a return.
C20_Witness ==
    /\ pc = "returned"
    /\ Len(replies) = 2
    /\ Len(ret.log) = 2
    /\ \E i \in 1..2 : FailedInExecutor(ret.log[i])
    /\ \E i \in 1..2 : ~FailedInExecutor(ret.log[i])

(***************************************************************************)
(* Claims about the agent runner                                           *)
(***************************************************************************)
\* Whether the agent's call got as far as overriding the provider's config.
AgentEntered == Has(agent_call, "prov")

\* C17: once AgentRunner.run has returned or raised, or an
\* AgentRunner.stream iterator is exhausted, closed or has raised, the
\* config.model and config.temperature of every provider are what they were
\* immediately before the call.
C17_ConfigRestored ==
    (AgentCallOver /\ agent_call.pc # "idle") =>
        \A name \in ProviderNames :
            /\ providers[name].model = agent_call.before[name].model
            /\ providers[name].temperature = agent_call.before[name].temperature

\* A stream whose agent overrides both model and temperature has handed out
\* a chunk under the overridden config and has then been closed.
C17_Witness ==
    /\ agent_call.pc = "closed"
    /\ AgentEntered
    /\ agent_call.chunks >= 1
    /\ agent_call.seen.model # agent_call.orig_model
    /\ agent_call.seen.temperature # agent_call.orig_temp

(***************************************************************************)
(* Claims about stream(), ask() and last_usage                             *)
(***************************************************************************)
\* Whether the provider call is a stream() generator (consumed by the
\* caller, or by the join of ask()).
IsGenerator == prov_call.kind \in {"stream", "ask"}

\* The text a well-formed line carries, as the vendor documents the line.
TextOf(a, line) ==
    CASE a = "claude" /\ \E f \in Frags : line = ClaudeTextLine(f) ->
           <<CHOOSE f \in Frags : line = ClaudeTextLine(f)>>
      [] a \in {"openai", "openrouter"} /\ \E f \in Frags : line = OpenAITextLine(f) ->
           <<CHOOSE f \in Frags : line = OpenAITextLine(f)>>
      [] a = "gemini" /\ \E fs \in GeminiFragLists : line = GeminiTextLine(fs) ->
           CHOOSE fs \in GeminiFragLists : line = GeminiTextLine(fs)
      [] OTHER -> <<>>

\* Whether the line ends the stream by the vendor's protocol.
EndsStream(a, line) == a \in {"openai", "openrouter"} /\ line = DoneLine

RECURSIVE TextsOf(_, _)
\* The texts of the well-formed lines, in order, up to the end of the stream.
TextsOf(a, lines) ==
    IF lines = <<>> \/ EndsStream(a, Head(lines)) THEN <<>>
    ELSE TextOf(a, Head(lines)) \o TextsOf(a, Tail(lines))

IsErrorFragment(f) == StartsWith(f, "Error: ")

\* C11: when the transport fails during a stream() call, at whatever point,
\* the consumer has received the fragments produced before the failure and
\* then exactly one fragment beginning "Error: "; nothing follows it and no
\* exception reaches the consumer.
C11_TransportFailureYieldsOneError ==
    (IsGenerator /\ prov_call.failed) =>
        /\ prov_call.pc \in {"failed", "done", "closed"}
        /\ Len(prov_call.frags) >= 1
        /\ IsErrorFragment(prov_call.frags[Len(prov_call.frags)])
        /\ SubSeq(prov_call.frags, 1, Len(prov_call.frags) - 1)
               = TextsOf(prov_adapter, prov_call.lines)

\* A stream() whose transport failed in mid-stream, after a fragment had
\* been handed over, has been drained by its caller.
C11_Witness ==
    /\ prov_call.kind = "stream"
    /\ prov_call.failed
    /\ prov_call.pc = "done"
    /\ Len(prov_call.frags) >= 2
    /\ prov_call.lines # <<>>

\* C12: a malformed line of the response is skipped: a stream whose
\* transport did not fail yields, once drained, the texts of the well-formed
\* lines and nothing else (no "Error: " fragment).
C12_MalformedLineSkipped ==
    (IsGenerator /\ prov_call.pc = "done" /\ ~prov_call.failed) =>
        prov_call.frags = TextsOf(prov_adapter, prov_call.lines)

\* C18: however a stream() call has ended (drained, closed early, or
\* having failed), the streaming response opened for it is released.
C18_ConnectionReleased ==
    (IsGenerator /\ prov_call.pc \in {"failed", "done", "closed", "raised"}) =>
        prov_call.conn # "open"

\* A stream() closed by its caller after a fragment, the response having
\* been open at the time.
C18_Witness ==
    /\ prov_call.kind = "stream"
    /\ prov_call.pc = "closed"
    /\ ~prov_call.failed
    /\ Len(prov_call.frags) >= 1
    /\ prov_call.conn = "released"

\* The counts a line of a stream reports, as the vendor documents the line:
\* <<input tokens, output tokens>>, 0 for a count the line does not carry.
CountsOf(a, line) ==
    CASE a = "claude" /\ line = ClaudeStartLine -> <<10, 0>>
      [] a = "claude" /\ line = ClaudeDeltaLine -> <<0, 5>>
      [] a \in {"openai", "openrouter"} /\ line = OpenAIUsageLine -> <<10, 5>>
      [] a = "gemini" /\ line = GeminiUsageLine -> <<10, 5>>
      [] OTHER -> <<0, 0>>

RECURSIVE ReportedInStream(_, _, _)
\* What the lines of one stream report in all: each counter as last
\* reported, None if no line reports any.
ReportedInStream(a, lines, sofar) ==
    IF lines = <<>> \/ EndsStream(a, Head(lines)) THEN sofar
    ELSE LET counts == CountsOf(a, Head(lines))
             prev   == IF sofar = None THEN <<0, 0>> ELSE sofar.val
         IN  ReportedInStream(a, Tail(lines),
                 IF counts = <<0, 0>> THEN sofar
                 ELSE Some(<<IF counts[1] # 0 THEN counts[1] ELSE prev[1],
                             IF counts[2] # 0 THEN counts[2] ELSE prev[2]>>))

RECURSIVE ReportedInRounds(_, _)
\* What the rounds of one ask_with_tools report in all: the sum of the
\* rounds' counts, None if no round reports any.
ReportedInRounds(reports, sofar) ==
    IF reports = <<>> THEN sofar
    ELSE LET prev == IF sofar = None THEN <<0, 0>> ELSE sofar.val
         IN  ReportedInRounds(Tail(reports),
                 IF Head(reports) = None THEN sofar
                 ELSE Some(<<prev[1] + Head(reports).val[1],
                             prev[2] + Head(reports).val[2]>>))

\* The token counts reported by the provider call alone.
ReportedByCall ==
    IF prov_call.kind = "ask_with_tools"
    THEN ReportedInRounds(prov_call.reports, None)
    ELSE ReportedInStream(prov_adapter, prov_call.lines, None)

\* Whether a drained stream, an ask or an ask_with_tools has completed.
ProvCallCompleted ==
    \/ IsGenerator /\ prov_call.pc = "done"
    \/ prov_call.kind = "ask_with_tools" /\ prov_call.pc = "returned"

\* C19: once a provider call has completed, last_usage holds the token
\* counts reported by that call alone, or None if it reported none.
C19_UsageOfThisCallAlone ==
    ProvCallCompleted => last_usage = ReportedByCall

(***************************************************************************)
(* Claims about when tools run and what text is returned                   *)
(***************************************************************************)
\* C25: in the Claude and OpenAI-compatible loops a handler is invoked (and
\* a call logged) in a round only if the round's response has the
\* tool-call stop signal and carries a tool call; a response that carries
\* tool calls under any other stop signal makes the loop return with none
\* of them executed or logged.
C25_Step ==
    adapter \in {"claude", "openai"} =>
        /\ (handler_calls' # handler_calls \/ tool_log' # tool_log) =>
              RoundTaken /\ RequestsTools(adapter, NewReply)
        /\ (RoundTaken /\ ~IsHttpFailure(NewReply)
              /\ ReplyCalls(adapter, NewReply) # <<>>
              /\ ~SignalsToolCall(adapter, NewReply)) =>
                  /\ pc' = "returned"
                  /\ ret'.log = tool_log
                  /\ tool_log' = tool_log
                  /\ handler_calls' = handler_calls

C25_ToolsOnlyOnSignal == [][C25_Step]_vars

\* The OpenAI loop ran the tools of a first response and returned on a
\* second response that carried a tool call under another finish reason.
C25_Witness ==
    /\ adapter = "openai"
    /\ pc = "returned"
    /\ Len(replies) = 2
    /\ ~IsHttpFailure(replies[2])
    /\ ReplyCalls(adapter, replies[2]) # <<>>
    /\ ~SignalsToolCall(adapter, replies[2])
    /\ Len(handler_calls) = 1
    /\ Len(ret.log) = 1

\* C26: the text ask_with_tools returns is the text of the last response
\* received in the call (when the rounds are exhausted: the text that came
\* with the last tool-call response); text of earlier rounds is not in it.
C26_Step ==
    (pc = "running" /\ pc' = "returned") =>
        IF RoundTaken
        THEN ~IsHttpFailure(NewReply) => ret'.text = ReplyText(adapter, NewReply)
        ELSE replies # <<>> /\ ret'.text = ReplyText(adapter, replies[Len(replies)])

C26_TextOfLastResponseOnly == [][C26_Step]_vars

\* A first response with text and a tool call, then a final response
\* without text: the empty text is returned.
C26_Witness ==
    /\ adapter = "claude"
    /\ pc = "returned"
    /\ Len(replies) = 2
    /\ ReplyText(adapter, replies[1]) = "a"
    /\ RequestsTools(adapter, replies[1])
    /\ ~IsHttpFailure(replies[2])
    /\ ReplyText(adapter, replies[2]) = ""
    /\ ret.text = ""

(***************************************************************************)
(* Claims about the segmenter's fences, blocks and final state             *)
(***************************************************************************)
\* C23: no prose line whose trimmed text begins with a triple-backtick
\* fence is ever emitted, by feed() or by finish().
C23_NoFenceAsProse ==
    \A i \in 1..Len(renderer.out) :
        IsProse(renderer.out[i]) => ~IsFenceLine(renderer.out[i].prose)

RECURSIVE ReadBlocks(_, _)
\* The fenced blocks of a text, read line by line: in prose a line whose
\* trimmed text begins with the fence opens a block and names its language;
\* in a block a line whose trimmed text is the fence alone closes it and
\* any other line belongs to its body.  `seg` holds the blocks closed so
\* far and, while a block is open, its language and body lines.
ReadBlocks(lines, seg) ==
    IF lines = <<>> THEN seg
    ELSE LET line == Head(lines)
         IN  ReadBlocks(Tail(lines),
                 IF ~seg.open
                 THEN IF IsFenceLine(line)
                      THEN [seg EXCEPT !.open = TRUE,
                                       !.lang = Strip(SubSeq(Strip(line), 4, Len(Strip(line)))),
                                       !.body = <<>>]
                      ELSE seg
                 ELSE IF Strip(line) = Fence
                      THEN [seg EXCEPT !.open = FALSE,
                                       !.blocks = Append(@, [lang |-> seg.lang,
                                                             body |-> seg.body])]
                      ELSE [seg EXCEPT !.body = Append(@, line)])

NoBlocks == [blocks |-> <<>>, open |-> FALSE, lang |-> "", body |-> <<>>]

\* The body lines as one text, a newline between them.
RECURSIVE BodyText(_)
BodyText(body) ==
    IF body = <<>> THEN ""
    ELSE IF Len(body) = 1 THEN body[1]
    ELSE Head(body) \o "\n" \o BodyText(Tail(body))

\* The blocks to be emitted for the text fed so far: those whose closing
\* fence line is complete and, once finish() is called, the block still
\* open (if it has a body), with every line fed since its opening fence.
BlocksDue(s, done) ==
    LET seg  == ReadBlocks(CompleteLines(s), NoBlocks)
        last == SplitLines(s)[Len(SplitLines(s))]
        tail == IF last = "" THEN seg.body ELSE Append(seg.body, last)
        all  == IF done /\ seg.open /\ tail # <<>>
                THEN Append(seg.blocks, [lang |-> seg.lang, body |-> tail])
                ELSE seg.blocks
    IN  [i \in 1..Len(all) |->
            CodeEvent(RStrip(BodyText(all[i].body), {"\n"}), all[i].lang)]

\* C24: every code block is emitted exactly once and as a whole, not before
\* its closing fence line is complete (or finish() is called), closed only
\* by a line that is the fence alone, with the language of its own opening
\* fence and all its body lines in order.
C24_BlocksEmittedWhole ==
    SelectSeq(renderer.out, IsCode) = BlocksDue(FedText, finished)

\* C29: after finish() has returned, the segmenter is in state PROSE with
\* an empty line buffer and an empty code buffer.
C29_CleanAfterFinish ==
    finished =>
        /\ renderer.state = "PROSE"
        /\ renderer.line_buf = ""
        /\ renderer.code_buf = ""

(***************************************************************************)
(* C21: ask() against stream()                                             *)
(***************************************************************************)
RECURSIVE StreamedFor(_, _, _, _, _)
\* The generator of stream() drained by its caller on a given reply: the
\* remaining lines of the response and how the response ends.
StreamedFor(a, g, lines, ended, usage) ==
    CASE g.pc = "reading" /\ lines # <<>> ->
           LET c == TakeLine(a, g, Head(lines), usage)
           IN  StreamedFor(a, c.g, Tail(lines), ended, c.usage)
      [] g.pc = "reading" /\ lines = <<>> ->
           StreamedFor(a, TakeEnd(g, ended), lines, ended, usage)
      [] g.pc = "suspended" ->
           LET c == Continue(g, usage)
           IN  StreamedFor(a, c.g, lines, ended, c.usage)
      [] g.pc = "failed" ->
           StreamedFor(a, [g EXCEPT !.pc = "done"], lines, ended, usage)
      [] OTHER -> g

\* The fragments stream() produces for the reply that the call received.
StreamFragments(a, c) ==
    StreamedFor(a, Start(NewGenerator("stream"), c.opened), c.lines, c.ended,
                None).frags

\* C21: for every reply, a failing one included, ask() returns the
\* concatenation, in order, of the fragments stream() produces for it.
C21_AskIsJoinedStream ==
    (prov_call.kind = "ask" /\ prov_call.pc = "done") =>
        prov_call.ret = Join(StreamFragments(prov_adapter, prov_call))

\* An ask() whose response gave a text and then failed in mid-stream.
C21_Witness ==
    /\ prov_call.kind = "ask"
    /\ prov_call.pc = "done"
    /\ prov_call.ended = "read"
    /\ prov_call.ret = "aError: ReadError"


(***************************************************************************)
(* Claims about callable_to_tool_def                                       *)
(***************************************************************************)
\* The names of a sequence of parameters, in order.
NamesOf(params) == [i \in 1..Len(params) |-> params[i].name]

NoDefault(param) == ~param.has_default

Explicit(param) == param.name \notin {"self", "cls"}

ExplicitNoDefault(param) == Explicit(param) /\ NoDefault(param)

\* The schema's required list; the key is left out when the list is empty.
RequiredOf(td) == Get(td.val.parameters, "required", <<>>)

\* C22 (as stated): the derived schema's required list is exactly the
\* parameters that have no default value, in signature order, and a
\* parameter that has a default never appears in it.
C22_RequiredIsNoDefault ==
    tool_def # None =>
        /\ RequiredOf(tool_def) = NamesOf(SelectSeq(signature, NoDefault))
        /\ \A i \in 1..Len(signature) :
              signature[i].has_default =>
                 \A k \in 1..Len(RequiredOf(tool_def)) :
                    RequiredOf(tool_def)[k] # signature[i].name

\* C22 (amended): the required list is exactly the parameters, other than
\* those named self or cls, which the schema leaves out altogether, that have
\* no default value, in signature order; a parameter that has a default never
\* appears in it.
C22_RequiredIsExplicitNoDefault ==
    tool_def # None =>
        /\ RequiredOf(tool_def) = NamesOf(SelectSeq(signature, ExplicitNoDefault))
        /\ DOMAIN tool_def.val.parameters.properties =
              {signature[i].name : i \in {j \in 1..Len(signature) : Explicit(signature[j])}}
        /\ \A i \in 1..Len(signature) :
              signature[i].has_default =>
                 \A k \in 1..Len(RequiredOf(tool_def)) :
                    RequiredOf(tool_def)[k] # signature[i].name

\* def f(a: str, b: int = 0): required == ["a"], properties.b.type == "integer"
C22_Witness ==
    /\ signature = <<[name |-> "a", has_default |-> FALSE, annotation |-> "str"],
                     [name |-> "b", has_default |-> TRUE, annotation |-> "int"]>>
    /\ tool_def # None
    /\ RequiredOf(tool_def) = <<"a">>
    /\ tool_def.val.parameters.properties["b"].type = "integer"

(***************************************************************************)
(* Claims about overlapping agent-scoped calls                             *)
(***************************************************************************)
\* Both calls are over, they were on the same provider, and one entered
\* while the other was inside.
Overlapped ==
    /\ \A i \in Calls : overlap[i].pc = "over"
    /\ overlap[1].prov = overlap[2].prov
    /\ overlap[1].prov # ""
    /\ \E i \in Calls : overlap[i].during

\* C27: when two agent-scoped calls on the same provider overlap in time,
\* then once both have finished the provider's config.model and
\* config.temperature equal the values they had before the first of the two
\* started.
C27_OverlapRestores ==
    Overlapped =>
        LET name == overlap[1].prov
        IN  /\ providers[name].model = overlap_before.val[name].model
            /\ providers[name].temperature = overlap_before.val[name].temperature

(***************************************************************************)
(* Claims about StreamMessage                                              *)
(***************************************************************************)
\* What StreamRenderer emits for the same chunks followed by finish().
RECURSIVE FeedAll(_, _)
FeedAll(r, chunks) ==
    IF chunks = <<>> THEN r ELSE FeedAll(FeedChunk(r, Head(chunks)), Tail(chunks))

\* A prose line or a code block as the reader sees it: the line's text, or
\* the block's body and the language it is labelled with.
Shown(ev) ==
    IF Has(ev, "prose") THEN [prose |-> ev.prose]
    ELSE [code |-> ev.code, lang |-> IF ev.lang = "" THEN "text" ELSE ev.lang]

ShownAll(out) == [i \in 1..Len(out) |-> Shown(out[i])]

RendererShows(chunks) == ShownAll(FinishRenderer(FeedAll(NewRenderer, chunks)).out)

\* C28: for every sequence of feed() chunks followed by finish(),
\* StreamMessage and StreamRenderer emit the same sequence of prose lines and
\* code blocks (same language, same body).
C28_SameAsRenderer ==
    widget.finished => ShownAll(widget.out) = RendererShows(widget_chunks)

(***************************************************************************)
(* Claims about the TUI's streaming bridge                                 *)
(***************************************************************************)
\* C30: every chunk produced by the worker started for a prompt is fed to
\* the StreamMessage mounted for that prompt, and that StreamMessage receives
\* finish() exactly once, even when a second prompt is submitted before the
\* first prompt's worker has finished.
C30_ChunksAndFinishToOwnMessage ==
    \A p \in 1..Len(mounted) :
        /\ \A k \in 1..Len(mounted[p].fed) : mounted[p].fed[k] = p
        /\ Len(mounted[p].fed) = workers[p].sent
        /\ mounted[p].finishes <= 1
        /\ workers[p].pc = "done" => mounted[p].finishes = 1

=============================================================================
